---------------------------- MODULE Spec2Model ----------------------------
(***************************************************************************)
(* A model of the UEFI variable-store code of go-redfish-uefi:             *)
(*   - the GUID codec            (internal/firmware/efi, GUID)             *)
(*   - the device-path codec     (internal/firmware/efi, DevicePath)       *)
(*   - the variable record codec (internal/firmware/varstore, edk2.go)     *)
(*   - the variable store        (internal/firmware/varstore)              *)
(*                                                                         *)
(* Representation.  A byte is a number 0..255 and a byte string is a       *)
(* sequence of bytes.  A Go string is the sequence of its bytes (ASCII     *)
(* codes).  TLC's integers are 32-bit signed, so a uint32/uint64 is kept   *)
(* as the sequence of its 16-bit words, most significant word first        *)
(* (a uint32 is <<hi, lo>>).                                               *)
(***************************************************************************)
EXTENDS Integers, Sequences, FiniteSets, TLC

VARIABLES
    guid, gstr, gparsed, gpc,      \* GUID codec: input, String(), ParseGUID(), position
    path, psrc, pbytes,            \* device path codec: the path, where pbytes comes from, the bytes
    ppos, pdecoded, ppc,           \* NewDevicePath: loop position, elements so far, position
    var, img, cpc,                 \* record codec: the variable handed to BytesVar, the
                                   \* records an input image was built from, position
    FileData, Start, End,          \* Edk2VarStore fields
    pos, varlist, dpc,             \* GetVarList: loop position, result map, loop status
    VarList, last,                 \* EfiVariableStore.VarList and the last call's outcome
    scanOffset, vpc,               \* FindNvData: its offset; constructor position
    File,                          \* the bytes of the file WriteVarStore writes
    ports, systems,                \* the switch's PoE mode per port; RedfishServer.Systems
    callers, mutex, locking        \* callers of one store: their position and local order;
                                   \* the holder of their mutex; whether they use it

guidVars  == <<guid, gstr, gparsed, gpc>>
pathVars  == <<path, psrc, pbytes, ppos, pdecoded, ppc>>
imageVars == <<FileData, Start, End>>
loopVars  == <<pos, varlist, dpc>>
codecVars == <<var, img, cpc>>
storeVars == <<VarList, last>>
scanVars  == <<scanOffset, vpc>>
diskVars  == <<File>>
envVars   == <<ports, systems, callers, mutex, locking>>
vars == <<guid, gstr, gparsed, gpc, path, psrc, pbytes, ppos, pdecoded, ppc, var, img, cpc,
          FileData, Start, End, pos, varlist, dpc, VarList, last, scanOffset, vpc, File,
          ports, systems, callers, mutex, locking>>

---------------------------------------------------------------------------
(* Bytes, words and little-endian layout (encoding/binary.LittleEndian).   *)

Byte == 0..255

RECURSIVE Flatten(_)
Flatten(ss) == IF Len(ss) = 0 THEN <<>> ELSE Head(ss) \o Flatten(Tail(ss))

Repeat(b, n) == [i \in 1..n |-> b]

\* the two bytes of a 16-bit word, least significant first
PutUint16(w) == <<w % 256, (w \div 256) % 256>>

\* a multi-word unsigned integer (most significant word first) as little-endian bytes
PutLE(words) == Flatten([i \in 1..Len(words) |-> PutUint16(words[Len(words) + 1 - i])])

\* the 16-bit word at byte offset off (0-based) of b
Uint16(b, off) == b[off + 1] + 256 * b[off + 2]

\* the nwords-word unsigned integer at byte offset off, most significant word first
GetLE(b, off, nwords) == [i \in 1..nwords |-> Uint16(b, off + 2 * (nwords - i))]

\* b[lo:hi] of Go (0-based, hi exclusive)
Slice(b, lo, hi) == SubSeq(b, lo + 1, hi)

---------------------------------------------------------------------------
(* strconv.ParseUint(s, 16, bitSize) and fmt's %0Nx.                       *)

IsDigit(c)    == c \in 48..57
IsLowerHex(c) == c \in 97..102
IsUpperHex(c) == c \in 65..70
IsHexChar(c)  == IsDigit(c) \/ IsLowerHex(c) \/ IsUpperHex(c)

HexValue(c) == IF IsDigit(c) THEN c - 48
               ELSE IF IsLowerHex(c) THEN c - 87
               ELSE c - 55

RECURSIVE HexNumber(_)
HexNumber(s) == IF Len(s) = 0 THEN 0
                ELSE 16 * HexNumber(SubSeq(s, 1, Len(s) - 1)) + HexValue(s[Len(s)])

Pow2(bits) == IF bits = 8 THEN 256 ELSE 65536

\* strconv.ParseUint(s, 16, bitSize) for bitSize 8 or 16: a syntax error on the
\* empty string or a non-hex character, a range error on a value >= 2^bitSize.
ParseUint(s, bitSize) ==
    IF Len(s) = 0 \/ \E i \in 1..Len(s) : ~IsHexChar(s[i])
    THEN [err |-> TRUE, val |-> 0]
    ELSE IF HexNumber(s) >= Pow2(bitSize)
    THEN [err |-> TRUE, val |-> 0]
    ELSE [err |-> FALSE, val |-> HexNumber(s)]

HexDigitLower(d) == IF d < 10 THEN 48 + d ELSE 87 + d

\* %0<width>x of n, for n < 16^width
RECURSIVE FmtHex(_, _)
FmtHex(n, width) == IF width = 0 THEN <<>>
                    ELSE Append(FmtHex(n \div 16, width - 1), HexDigitLower(n % 16))

---------------------------------------------------------------------------
(* GUID codec.                                                             *)

Dash == 45

ZeroGUID == [Data1 |-> <<0, 0>>, Data2 |-> 0, Data3 |-> 0, Data4 |-> Repeat(0, 8)]

\* GUID.String without zero padding of the first field (%x for %08x)
GUID_StringMutNoPad(g) ==
    (IF g.Data1[1] = 0 THEN <<>> ELSE FmtHex(g.Data1[1], 4)) \o FmtHex(g.Data1[2], 4)
      \o <<Dash>> \o FmtHex(g.Data2, 4) \o <<Dash>> \o FmtHex(g.Data3, 4) \o <<Dash>>
      \o FmtHex(g.Data4[1], 2) \o FmtHex(g.Data4[2], 2) \o <<Dash>>
      \o Flatten([i \in 1..6 |-> FmtHex(g.Data4[i + 2], 2)])

\* %08x-%04x-%04x-%02x%02x-%02x%02x%02x%02x%02x%02x
GUID_String(g) ==
    FmtHex(g.Data1[1], 4) \o FmtHex(g.Data1[2], 4)
      \o <<Dash>> \o FmtHex(g.Data2, 4) \o <<Dash>> \o FmtHex(g.Data3, 4) \o <<Dash>>
      \o FmtHex(g.Data4[1], 2) \o FmtHex(g.Data4[2], 2) \o <<Dash>>
      \o Flatten([i \in 1..6 |-> FmtHex(g.Data4[i + 2], 2)])

\* strings.ReplaceAll of "{", "}", " " and "-" by ""
StripGUIDString(s) == SelectSeq(s, LAMBDA c : c \notin {123, 125, 32, Dash})

\* ParseUint(s[0:8], 16, 32): eight characters never exceed 32 bits, so the
\* only error is a non-hex character; the value is kept as <<hi, lo>>.
ParseData1(s8) ==
    LET hi == ParseUint(SubSeq(s8, 1, 4), 16)
        lo == ParseUint(SubSeq(s8, 5, 8), 16)
    IN [err |-> hi.err \/ lo.err, val |-> <<hi.val, lo.val>>]

\* the first index i in 1..8 whose byte s[16+2i-1 .. 16+2i] fails to parse, or 0
FirstBadData4(s) ==
    LET bad == {i \in 1..8 : ParseUint(SubSeq(s, 15 + 2 * i, 16 + 2 * i), 8).err}
    IN IF bad = {} THEN 0 ELSE CHOOSE i \in bad : \A j \in bad : i <= j

ParseGUID(str) ==
    LET s  == StripGUIDString(str)
        d1 == ParseData1(SubSeq(s, 1, 8))
        d2 == ParseUint(SubSeq(s, 9, 12), 16)
        d3 == ParseUint(SubSeq(s, 13, 16), 16)
        k  == FirstBadData4(s)
        d4(upto) == [i \in 1..8 |->
                       IF i <= upto THEN ParseUint(SubSeq(s, 15 + 2 * i, 16 + 2 * i), 8).val
                       ELSE 0]
    IN IF Len(s) # 32 THEN [err |-> TRUE, guid |-> ZeroGUID]
       ELSE IF d1.err THEN [err |-> TRUE, guid |-> ZeroGUID]
       ELSE IF d2.err THEN [err |-> TRUE, guid |-> [ZeroGUID EXCEPT !.Data1 = d1.val]]
       ELSE IF d3.err THEN [err |-> TRUE,
                            guid |-> [ZeroGUID EXCEPT !.Data1 = d1.val, !.Data2 = d2.val]]
       ELSE IF k # 0 THEN [err |-> TRUE,
                           guid |-> [Data1 |-> d1.val, Data2 |-> d2.val,
                                     Data3 |-> d3.val, Data4 |-> d4(k - 1)]]
       ELSE [err |-> FALSE,
             guid |-> [Data1 |-> d1.val, Data2 |-> d2.val,
                       Data3 |-> d3.val, Data4 |-> d4(8)]]

GUID_Equal(a, b) ==
    /\ a.Data1 = b.Data1
    /\ a.Data2 = b.Data2
    /\ a.Data3 = b.Data3
    /\ a.Data4 = b.Data4

\* binary.Write of Data1, Data2, Data3 little-endian, then Data4
GUID_BytesLE(g) == PutLE(g.Data1) \o PutUint16(g.Data2) \o PutUint16(g.Data3) \o g.Data4

\* ParseBinGUID(data, offset); the caller has checked offset + 16 <= len(data)
ParseBinGUID(data, offset) ==
    [Data1 |-> GetLE(data, offset, 2),
     Data2 |-> Uint16(data, offset + 4),
     Data3 |-> Uint16(data, offset + 6),
     Data4 |-> Slice(data, offset + 8, offset + 16)]

EFI_GLOBAL_VARIABLE_GUID ==
    [Data1 |-> <<35812, 57185>>, Data2 |-> 37834, Data3 |-> 4562,
     Data4 |-> <<170, 13, 0, 224, 152, 3, 43, 140>>]

\* "8be4df61-93ca-11d2-aa0d-00e098032b8c"
EFI_GLOBAL_VARIABLE_GUID_STR ==
    <<56, 98, 101, 52, 100, 102, 54, 49, 45, 57, 51, 99, 97, 45, 49, 49, 100, 50, 45,
      97, 97, 48, 100, 45, 48, 48, 101, 48, 57, 56, 48, 51, 50, 98, 56, 99>>

---------------------------------------------------------------------------
(* UCS-2 strings (efi.FromUCS16, efi.NewUCS16String, efi.FromString).      *)
(* A UCS16 string is the sequence of its 16-bit code units.                *)

\* efi.FromUCS16(data, offset): the code units from offset up to, and not
\* including, the first zero unit or the end of the data
RECURSIVE FromUCS16(_, _)
FromUCS16(data, offset) ==
    IF offset + 2 > Len(data) THEN <<>>
    ELSE IF Uint16(data, offset) = 0 THEN <<>>
    ELSE <<Uint16(data, offset)>> \o FromUCS16(data, offset + 2)

\* efi.NewUCS16String(s) / efi.FromString(s): one code unit per ASCII character
NewUCS16String(s) == s

\* UCS16String.Bytes(): the units little-endian, then the zero terminator
UCS16_Bytes(u) == Flatten([i \in 1..Len(u) |-> PutUint16(u[i])]) \o <<0, 0>>

\* UCS16String.Size(): the byte length of Bytes()
UCS16_Size(u) == 2 * Len(u) + 2

\* UCS16String.String(): the text; a unit below 128 is its ASCII character
UCS16_String(u) == u

\* strings.ToLower on ASCII text
ToLower(s) == [i \in 1..Len(s) |-> IF s[i] \in 65..90 THEN s[i] + 32 ELSE s[i]]

---------------------------------------------------------------------------
(* Device path codec.                                                      *)

EndDevType == 127
EndSubType == 255

EndElem == [DevType |-> EndDevType, SubType |-> EndSubType, Data |-> <<>>]

\* NewDevicePathElem: the end element on fewer than 4 bytes; otherwise type,
\* subtype and data[4:size], the data empty when size < 4 or size > len(data)
NewDevicePathElem(data) ==
    IF Len(data) >= 4
    THEN LET size == Uint16(data, 2)
         IN [DevType |-> data[1], SubType |-> data[2],
             Data |-> IF Len(data) >= size /\ size >= 4 THEN Slice(data, 4, size)
                      ELSE <<>>]
    ELSE EndElem

\* Size without the 4 bytes of the element's header
DevicePathElem_SizeMutNoHeader(e) == Len(e.Data)

\* len(e.Data) + 4
DevicePathElem_Size(e) == Len(e.Data) + 4

\* size := uint16(e.Size())
DevicePathElem_Bytes(e) ==
    <<e.DevType, e.SubType>> \o PutUint16(DevicePathElem_Size(e) % 65536) \o e.Data

\* Equals that compares the data of every element type byte by byte
DevicePathElem_EqualsMutExact(e, other) ==
    IF e.DevType # other.DevType THEN FALSE
    ELSE IF e.SubType # other.SubType THEN FALSE
    ELSE e.Data = other.Data

DevicePathElem_Equals(e, other) ==
    IF e.DevType # other.DevType THEN FALSE
    ELSE IF e.SubType # other.SubType THEN FALSE
    ELSE IF e.DevType = 4 /\ e.SubType = 4
    THEN ToLower(UCS16_String(FromUCS16(e.Data, 0)))
           = ToLower(UCS16_String(FromUCS16(other.Data, 0)))
    ELSE e.Data = other.Data

\* DevicePath.Bytes: every element, then the end-of-path element
DevicePath_Bytes(p) ==
    Flatten([i \in 1..Len(p.Elements) |-> DevicePathElem_Bytes(p.Elements[i])])
      \o DevicePathElem_Bytes(EndElem)

DevicePath_Equals(p, other) ==
    IF Len(p.Elements) # Len(other.Elements) THEN FALSE
    ELSE \A i \in 1..Len(p.Elements) :
            DevicePathElem_Equals(p.Elements[i], other.Elements[i])

\* the element NewDevicePath reads at its current position
ElemAtPos == NewDevicePathElem(Slice(pbytes, ppos, Len(pbytes)))

\* DevicePath.Bytes()
CallDevicePathBytes ==
    /\ ppc = "encode"
    /\ pbytes' = DevicePath_Bytes(path)
    /\ ppc' = "decode"
    /\ UNCHANGED <<path, psrc, ppos, pdecoded>>

\* NewDevicePath: empty input returns the empty path at once
NewDevicePathEmpty ==
    /\ ppc = "decode"
    /\ Len(pbytes) = 0
    /\ pdecoded' = <<>>
    /\ ppc' = "done"
    /\ UNCHANGED <<path, psrc, pbytes, ppos>>

\* NewDevicePath: pos := 0 and enter the loop
NewDevicePathEnter ==
    /\ ppc = "decode"
    /\ Len(pbytes) # 0
    /\ ppos' = 0
    /\ pdecoded' = <<>>
    /\ ppc' = "loop"
    /\ UNCHANGED <<path, psrc, pbytes>>

\* the loop condition pos < len(data) fails
NewDevicePathExit ==
    /\ ppc = "loop"
    /\ ~(ppos < Len(pbytes))
    /\ ppc' = "done"
    /\ UNCHANGED <<path, psrc, pbytes, ppos, pdecoded>>

\* elem.DevType == 0x7f: break
NewDevicePathBreak ==
    /\ ppc = "loop"
    /\ ppos < Len(pbytes)
    /\ ElemAtPos.DevType = EndDevType
    /\ ppc' = "done"
    /\ UNCHANGED <<path, psrc, pbytes, ppos, pdecoded>>

\* append the element and advance by its size
NewDevicePathAppend ==
    /\ ppc = "loop"
    /\ ppos < Len(pbytes)
    /\ ElemAtPos.DevType # EndDevType
    /\ pdecoded' = Append(pdecoded, ElemAtPos)
    /\ ppos' = ppos + DevicePathElem_Size(ElemAtPos)
    /\ UNCHANGED <<path, psrc, pbytes, ppc>>

---------------------------------------------------------------------------
(* Variable record codec (edk2.go: BytesVar, BytesVarList, BytesVarStore). *)

VarMagic   == 21930    \* 0x55aa
VarValid   == 63       \* 0x3f
FillerByte == 255      \* 0xff

\* uint32(n) for a length n of the model, as <<hi, lo>>
Uint32Of(n) == <<(n \div 65536) % 65536, n % 65536>>

\* int(x) of a uint32 <<hi, lo>>.  A value of 65536 or more exceeds every
\* buffer length and offset of the model, and the code only adds such values
\* to positions and compares the sums with lengths, so 65536 stands for all of them.
IntOfUint32(w) == IF w[1] = 0 THEN w[2] ELSE 65536

\* (n + 3) & ^3
Align4(n) == ((n + 3) \div 4) * 4

\* BytesVar: header, GUID, name, data, then 0xff up to a multiple of 4
BytesVar(v) ==
    LET name == NewUCS16String(v.Name)
        body == PutUint16(VarMagic) \o <<VarValid, 0>>
                  \o PutLE(v.Attr) \o PutLE(v.Count) \o v.Time
                  \o PutLE(v.PkIdx) \o PutLE(Uint32Of(UCS16_Size(name)))
                  \o PutLE(Uint32Of(Len(v.Data)))
                  \o GUID_BytesLE(v.GUID) \o UCS16_Bytes(name) \o v.Data
    IN body \o Repeat(FillerByte, (4 - (Len(body) % 4)) % 4)

\* Go's string order: byte-wise lexicographic
RECURSIVE StrLess(_, _)
StrLess(a, b) ==
    IF Len(b) = 0 THEN FALSE
    ELSE IF Len(a) = 0 THEN TRUE
    ELSE IF Head(a) # Head(b) THEN Head(a) < Head(b)
    ELSE StrLess(Tail(a), Tail(b))

\* sort.Strings of the keys of a map
RECURSIVE SortStrings(_)
SortStrings(keys) ==
    IF keys = {} THEN <<>>
    ELSE LET least == CHOOSE k \in keys : \A o \in keys \ {k} : StrLess(k, o)
         IN <<least>> \o SortStrings(keys \ {least})

\* the encodings of the variables of the map vl in the order keys
EncodeInOrder(vl, keys) == Flatten([i \in 1..Len(keys) |-> BytesVar(vl[keys[i]])])

\* BytesVarList that rejects a list filling the region exactly
BytesVarListMutStrict(vl) ==
    LET buf == EncodeInOrder(vl, SortStrings(DOMAIN vl))
    IN IF Len(buf) >= End - Start THEN [err |-> TRUE, bytes |-> <<>>]
       ELSE [err |-> FALSE, bytes |-> buf]

\* BytesVarList: the variables in sorted key order; "varstore is too small"
\* when they exceed End - Start
BytesVarList(vl) ==
    LET buf == EncodeInOrder(vl, SortStrings(DOMAIN vl))
    IN IF Len(buf) > End - Start THEN [err |-> TRUE, bytes |-> <<>>]
       ELSE [err |-> FALSE, bytes |-> buf]

\* BytesVarStore that copies the tail from Start instead of End
BytesVarStoreMutTail(vl) ==
    LET vb == BytesVarList(vl)
        head == Slice(FileData, 0, Start) \o vb.bytes
        padding == End - Start - Len(head) + Start
    IN IF vb.err THEN [err |-> TRUE, bytes |-> <<>>]
       ELSE [err |-> FALSE,
             bytes |-> head \o Repeat(FillerByte, IF padding > 0 THEN padding ELSE 0)
                         \o Slice(FileData, Start, Len(FileData))]

\* BytesVarStore: FileData[:Start], the variables, 0xff padding, FileData[End:]
BytesVarStore(vl) ==
    LET vb == BytesVarList(vl)
        head == Slice(FileData, 0, Start) \o vb.bytes
        padding == End - Start - Len(head) + Start
    IN IF vb.err THEN [err |-> TRUE, bytes |-> <<>>]
       ELSE [err |-> FALSE,
             bytes |-> head \o Repeat(FillerByte, IF padding > 0 THEN padding ELSE 0)
                         \o Slice(FileData, End, Len(FileData))]

---------------------------------------------------------------------------
(* GetVarList (edk2.go): the decode loop, one action per way through an    *)
(* iteration.  dpc is "idle" (not called), "loop", "done" (returned) or    *)
(* "panic" (index out of range).                                           *)

EmptyMap == [k \in {} |-> 0]

RecMagic(p) == Uint16(FileData, p)
RecState(p) == FileData[p + 3]
RecAttr(p)  == GetLE(FileData, p + 4, 2)
RecCount(p) == GetLE(FileData, p + 8, 4)
RecPk(p)    == GetLE(FileData, p + 32, 2)
RecNsize(p) == IntOfUint32(GetLE(FileData, p + 36, 2))
RecDsize(p) == IntOfUint32(GetLE(FileData, p + 40, 2))
RecDataStart(p) == p + 44 + 16 + RecNsize(p)
RecDataEnd(p)   == RecDataStart(p) + RecDsize(p)

\* pos = pos + 44 + 16 + int(nsize) + int(dsize); pos = (pos + 3) & ^3
RecNext(p) == Align4(p + 44 + 16 + RecNsize(p) + RecDsize(p))

\* the EfiVar built from the record at p
RecVar(p) ==
    [Name  |-> UCS16_String(FromUCS16(FileData, p + 44 + 16)),
     GUID  |-> ParseBinGUID(FileData, p + 44),
     Attr  |-> RecAttr(p),
     Data  |-> Slice(FileData, RecDataStart(p), RecDataEnd(p)),
     Count |-> RecCount(p),
     PkIdx |-> RecPk(p),
     Time  |-> Slice(FileData, p + 16, p + 24)]

\* m[k] = v of a Go map
MapSet(m, k, v) == [x \in DOMAIN m \cup {k} |-> IF x = k THEN v ELSE m[x]]

\* delete(m, k) of a Go map
MapDelete(m, k) == [x \in DOMAIN m \ {k} |-> m[x]]

HeaderFits == pos + 44 <= Len(FileData)

\* pos := vs.Start; varlist := make(EfiVarList)
GetVarListEnter ==
    /\ dpc = "idle"
    /\ cpc \in {"image", "encoded"}
    /\ pos' = Start
    /\ varlist' = EmptyMap
    /\ dpc' = "loop"
    /\ UNCHANGED <<codecVars, imageVars>>

\* the loop condition pos < vs.End fails
GetVarListEnd ==
    /\ dpc = "loop"
    /\ ~(pos < End)
    /\ dpc' = "done"
    /\ UNCHANGED <<pos, varlist, codecVars, imageVars>>

\* pos+44 > len(vs.FileData): break
GetVarListShort ==
    /\ dpc = "loop"
    /\ pos < End
    /\ ~HeaderFits
    /\ dpc' = "done"
    /\ UNCHANGED <<pos, varlist, codecVars, imageVars>>

\* the break on magic != 0x55aa, missing: the record is treated as one to skip
GetVarListFreeMutNoBreak ==
    /\ dpc = "loop"
    /\ pos < End
    /\ HeaderFits
    /\ RecMagic(pos) # VarMagic
    /\ pos' = pos + 4
    /\ UNCHANGED <<dpc, varlist, codecVars, imageVars>>

\* magic != 0x55aa: break
GetVarListFree ==
    /\ dpc = "loop"
    /\ pos < End
    /\ HeaderFits
    /\ RecMagic(pos) # VarMagic
    /\ dpc' = "done"
    /\ UNCHANGED <<pos, varlist, codecVars, imageVars>>

\* a record whose state is not 0x3f ends the loop instead of being stepped over
GetVarListSkipMutBreak ==
    /\ dpc = "loop"
    /\ pos < End
    /\ HeaderFits
    /\ RecMagic(pos) = VarMagic
    /\ RecState(pos) # VarValid
    /\ dpc' = "done"
    /\ UNCHANGED <<pos, varlist, codecVars, imageVars>>

\* state != 0x3f: only advance
GetVarListSkip ==
    /\ dpc = "loop"
    /\ pos < End
    /\ HeaderFits
    /\ RecMagic(pos) = VarMagic
    /\ RecState(pos) # VarValid
    /\ pos' = RecNext(pos)
    /\ UNCHANGED <<dpc, varlist, codecVars, imageVars>>

\* state == 0x3f and ParseBinGUID(vs.FileData, pos+44) indexes past the data
GetVarListPanic ==
    /\ dpc = "loop"
    /\ pos < End
    /\ HeaderFits
    /\ RecMagic(pos) = VarMagic
    /\ RecState(pos) = VarValid
    /\ pos + 44 + 16 > Len(FileData)
    /\ dpc' = "panic"
    /\ UNCHANGED <<pos, varlist, codecVars, imageVars>>

\* dataEnd > len(vs.FileData): break
GetVarListTruncated ==
    /\ dpc = "loop"
    /\ pos < End
    /\ HeaderFits
    /\ RecMagic(pos) = VarMagic
    /\ RecState(pos) = VarValid
    /\ pos + 44 + 16 <= Len(FileData)
    /\ RecDataEnd(pos) > Len(FileData)
    /\ dpc' = "done"
    /\ UNCHANGED <<pos, varlist, codecVars, imageVars>>

\* varlist[name] = v, then advance
GetVarListStore ==
    /\ dpc = "loop"
    /\ pos < End
    /\ HeaderFits
    /\ RecMagic(pos) = VarMagic
    /\ RecState(pos) = VarValid
    /\ pos + 44 + 16 <= Len(FileData)
    /\ RecDataEnd(pos) <= Len(FileData)
    /\ varlist' = MapSet(varlist, RecVar(pos).Name, RecVar(pos))
    /\ pos' = RecNext(pos)
    /\ UNCHANGED <<dpc, codecVars, imageVars>>

GetVarListStep ==
    \/ GetVarListEnter
    \/ GetVarListEnd
    \/ GetVarListShort
    \/ GetVarListFree
    \/ GetVarListSkip
    \/ GetVarListPanic
    \/ GetVarListTruncated
    \/ GetVarListStore

\* BytesVar(var); the bytes become the whole variable region of a store
CallBytesVar ==
    /\ cpc = "encode"
    /\ FileData' = BytesVar(var)
    /\ Start' = 0
    /\ End' = Len(BytesVar(var))
    /\ cpc' = "encoded"
    /\ UNCHANGED <<var, img, loopVars>>

---------------------------------------------------------------------------
(* Values of the variables while their component is not in use.            *)

NoParse == [err |-> FALSE, guid |-> ZeroGUID]
NoVar   == [Name |-> <<>>, GUID |-> ZeroGUID, Attr |-> <<0, 0>>, Data |-> <<>>,
            Count |-> <<0, 0, 0, 0>>, PkIdx |-> <<0, 0>>, Time |-> Repeat(0, 8)]
NoCall  == [op |-> "none", arg |-> <<>>, panic |-> FALSE, err |-> FALSE, ret |-> <<>>]

GuidIdle  == guid = ZeroGUID /\ gstr = <<>> /\ gparsed = NoParse /\ gpc = "idle"
PathIdle  == /\ path = [Elements |-> <<>>] /\ psrc = "none" /\ pbytes = <<>>
             /\ ppos = 0 /\ pdecoded = <<>> /\ ppc = "idle"
NoImage == [recs |-> <<>>, tail |-> "none"]

CodecIdle == var = NoVar /\ img = NoImage /\ cpc = "idle"
ImageIdle == FileData = <<>> /\ Start = 0 /\ End = 0
LoopIdle  == pos = 0 /\ varlist = EmptyMap /\ dpc = "idle"
StoreIdle == VarList = [nil |-> TRUE, m |-> EmptyMap] /\ last = NoCall
ScanIdle  == scanOffset = 0 /\ vpc = "idle"
DiskIdle  == File = <<>>
EnvIdle   == /\ ports = <<>> /\ systems = <<>>
             /\ callers = <<>> /\ mutex = 0 /\ locking = FALSE

SeqsUpTo(S, n) == UNION {[1..k -> S] : k \in 0..n}

---------------------------------------------------------------------------
(* SpecGuid: GUID.String followed by ParseGUID, for each input GUID.       *)

GuidData1 == {<<0, 0>>, <<35812, 57185>>, <<65535, 65535>>, <<0, 10>>, <<43981, 0>>}
GuidData2 == {0, 37834, 65535}
GuidData3 == {15, 4562, 65535}
GuidData4 == {Repeat(0, 8), <<170, 13, 0, 224, 152, 3, 43, 140>>, Repeat(255, 8)}

GuidInputs == {[Data1 |-> d1, Data2 |-> d2, Data3 |-> d3, Data4 |-> d4] :
                 d1 \in GuidData1, d2 \in GuidData2, d3 \in GuidData3, d4 \in GuidData4}

InitGuid ==
    /\ guid \in GuidInputs
    /\ gstr = <<>>
    /\ gparsed = NoParse
    /\ gpc = "format"
    /\ PathIdle /\ CodecIdle /\ ImageIdle /\ LoopIdle /\ StoreIdle
    /\ ScanIdle /\ DiskIdle /\ EnvIdle

CallGUIDString ==
    /\ gpc = "format"
    /\ gstr' = GUID_String(guid)
    /\ gpc' = "parse"
    /\ UNCHANGED <<guid, gparsed>>

CallParseGUID ==
    /\ gpc = "parse"
    /\ gparsed' = ParseGUID(gstr)
    /\ gpc' = "done"
    /\ UNCHANGED <<guid, gstr>>

NextGuid ==
    \/ CallGUIDString /\ UNCHANGED <<pathVars, codecVars, imageVars, loopVars, storeVars, scanVars, diskVars, envVars>>
    \/ CallParseGUID /\ UNCHANGED <<pathVars, codecVars, imageVars, loopVars, storeVars, scanVars, diskVars, envVars>>

SpecGuid == InitGuid /\ [][NextGuid]_vars

\* lowercase hex grouped 8-4-4-4-12
IsCanonicalGUIDString(s) ==
    /\ Len(s) = 36
    /\ \A i \in 1..36 : IF i \in {9, 14, 19, 24} THEN s[i] = Dash
                        ELSE IsDigit(s[i]) \/ IsLowerHex(s[i])

\* C5: for every GUID g, ParseGUID(g.String()) succeeds and returns a GUID
\* field-wise equal to g, and g.String() is lowercase hex grouped 8-4-4-4-12.
C5_GuidRoundTrip ==
    /\ gpc \in {"parse", "done"} => IsCanonicalGUIDString(gstr)
    /\ gpc = "done" => /\ ~gparsed.err
                       /\ GUID_Equal(gparsed.guid, guid)
                       /\ gparsed.guid = guid

C5_Witness ==
    /\ gpc = "done"
    /\ guid = EFI_GLOBAL_VARIABLE_GUID
    /\ gstr = EFI_GLOBAL_VARIABLE_GUID_STR
    /\ ~gparsed.err
    /\ gparsed.guid = EFI_GLOBAL_VARIABLE_GUID

---------------------------------------------------------------------------
(* SpecPath: DevicePath.Bytes followed by NewDevicePath for each input     *)
(* path, and NewDevicePath alone on raw byte strings.                      *)

MaxElems   == 2
MaxDataLen == 2

\* "http://10.0.50.1/grubaa64.efi"
ScenarioURI ==
    <<104, 116, 116, 112, 58, 47, 47, 49, 48, 46, 48, 46, 53, 48, 46, 49, 47,
      103, 114, 117, 98, 97, 97, 54, 52, 46, 101, 102, 105>>

\* DevicePathElem.SetURI on a fresh element
SetURI(uri) == [DevType |-> 3, SubType |-> 24, Data |-> uri]

\* NewURIPath(uri)
NewURIPath(uri) == [Elements |-> <<SetURI(uri)>>]

ElemKinds == {<<3, 24>>, <<4, 4>>, <<EndDevType, EndSubType>>, <<EndDevType, 1>>}

\* element data of each length: text bytes ("A", 0, "B", 0, ...) and bytes that
\* look like an end-of-path header (0x7f, 0xff, ...)
DataInputs ==
    {<<>>}
      \cup {[i \in 1..n |-> IF i % 2 = 1 THEN 65 + (i \div 2) ELSE 0] : n \in 1..MaxDataLen}
      \cup {[i \in 1..n |-> IF i % 2 = 1 THEN EndDevType ELSE EndSubType] : n \in 1..MaxDataLen}

ElemInputs == {[DevType |-> k[1], SubType |-> k[2], Data |-> d] :
                 k \in ElemKinds, d \in DataInputs}

PathInputs == {[Elements |-> es] : es \in SeqsUpTo(ElemInputs, MaxElems)}
                \cup {NewURIPath(ScenarioURI)}

MaxRawLen == 8

\* bytes that make every case of the decoder: a size field of 0, 4, 5 and
\* beyond the input, and the end-of-path type
RawBytes == {0, 4, 5, EndDevType}

RawPathInputs ==
    SeqsUpTo(RawBytes, MaxRawLen) \cup
    { <<>>,
      <<3, 24, 5>>,                               \* fewer than 4 bytes
      <<3, 24, 5, 0, 65>>,                        \* no end-of-path element
      <<1, 1, 2, 0, EndDevType, EndSubType, 4, 0>>,   \* size field below 4
      <<1, 1, 9, 0, 65, 66>>,                     \* size field past the input
      <<1, 1, 0, 0, 2, 1, 4, 0>> }                \* size field 0

InitPath ==
    /\ \/ /\ psrc = "path"
          /\ path \in PathInputs
          /\ pbytes = <<>>
          /\ ppc = "encode"
       \/ /\ psrc = "raw"
          /\ path = [Elements |-> <<>>]
          /\ pbytes \in RawPathInputs
          /\ ppc = "decode"
    /\ ppos = 0
    /\ pdecoded = <<>>
    /\ GuidIdle /\ CodecIdle /\ ImageIdle /\ LoopIdle /\ StoreIdle
    /\ ScanIdle /\ DiskIdle /\ EnvIdle

NextPath ==
    \/ CallDevicePathBytes /\ UNCHANGED <<guidVars, codecVars, imageVars, loopVars, storeVars, scanVars, diskVars, envVars>>
    \/ NewDevicePathEmpty /\ UNCHANGED <<guidVars, codecVars, imageVars, loopVars, storeVars, scanVars, diskVars, envVars>>
    \/ NewDevicePathEnter /\ UNCHANGED <<guidVars, codecVars, imageVars, loopVars, storeVars, scanVars, diskVars, envVars>>
    \/ NewDevicePathExit /\ UNCHANGED <<guidVars, codecVars, imageVars, loopVars, storeVars, scanVars, diskVars, envVars>>
    \/ NewDevicePathBreak /\ UNCHANGED <<guidVars, codecVars, imageVars, loopVars, storeVars, scanVars, diskVars, envVars>>
    \/ NewDevicePathAppend /\ UNCHANGED <<guidVars, codecVars, imageVars, loopVars, storeVars, scanVars, diskVars, envVars>>

SpecPath == InitPath /\ [][NextPath]_vars

\* no member of the path is the terminal element 0x7f/0xff, which a path
\* never stores
HasNoTerminalMember(p) ==
    \A i \in 1..Len(p.Elements) :
        ~(p.Elements[i].DevType = EndDevType /\ p.Elements[i].SubType = EndSubType)

\* C4: every path, with elements of any devType, subType and data, decodes
\* from its encoding to a path of the same length whose elements are equal
\* under Equals.  (Paths with the terminal element as a member are left out.)
C4_PathRoundTrip ==
    (ppc = "done" /\ psrc = "path" /\ HasNoTerminalMember(path))
        => /\ Len(pdecoded) = Len(path.Elements)
           /\ DevicePath_Equals([Elements |-> pdecoded], path)

\* no element has devType 0x7f
HasNoEndType(p) == \A i \in 1..Len(p.Elements) : p.Elements[i].DevType # EndDevType

\* What does hold: a path without an element of devType 0x7f decodes from its
\* encoding to the same elements, the position ending on the terminal element.
RoundTripWithoutEndType ==
    (ppc = "done" /\ psrc = "path" /\ HasNoEndType(path))
        => /\ pdecoded = path.Elements
           /\ DevicePath_Equals([Elements |-> pdecoded], path)
           /\ ppos = Len(pbytes) - 4

\* the same steps, none of them postponed for ever: a call of NewDevicePath
\* runs on until it returns
SpecPathFair == SpecPath /\ WF_vars(NextPath)

\* NewDevicePath has returned
PathDecoded == ppc = "done"

\* in the loop and after it: every element appended took at least 4 bytes of
\* the input, and the position is at most the input's length
DecodeWithinInput ==
    ppc \in {"loop", "done"}
        => (4 * Len(pdecoded) <= ppos /\ ppos <= Len(pbytes))

\* an iteration of the loop ends the loop or advances by the element's size,
\* which is at least 4
DecodeStepAdvances ==
    [][ppc = "loop" => (ppc' = "done" \/ ppos' >= ppos + 4)]_vars

\* C29: the path decoder terminates on every byte string and returns at most
\* len/4 elements: every iteration stops at devType 0x7F or advances by the
\* element's size, which is at least 4.
C29_DecodePathTerminates ==
    /\ []DecodeWithinInput
    /\ DecodeStepAdvances
    /\ <>[]PathDecoded

\* a raw input with a size field below 4 has been decoded: one element of
\* size 4, then the end of the loop
C29_Witness ==
    /\ psrc = "raw" /\ ppc = "done"
    /\ pbytes = <<1, 1, 0, 0, 2, 1, 4, 0>>
    /\ Len(pdecoded) = 2 /\ ppos = 8

---------------------------------------------------------------------------
(* SpecCodec: GetVarList on the bytes BytesVar produced for a variable,    *)
(* and GetVarList on variable regions laid out as GetVarList reads them.   *)

MaxRecords == 2

\* the EFI_VARIABLE_NON_VOLATILE | BOOTSERVICE_ACCESS | RUNTIME_ACCESS word
DefaultAttr == <<0, 7>>

VarInputs ==
    {[Name |-> n, GUID |-> g, Attr |-> DefaultAttr, Data |-> d, Count |-> c,
      PkIdx |-> <<0, 0>>, Time |-> Repeat(0, 8)] :
        n \in {<<65>>, <<66, 111>>},
        g \in {ZeroGUID, EFI_GLOBAL_VARIABLE_GUID},
        d \in {<<>>, <<1, 2>>, Repeat(7, 12)},
        c \in {<<0, 0, 0, 0>>, <<0, 0, 0, 1>>}}

\* a variable as it appears in an input image
DiskVar(name, data) ==
    [Name |-> name, GUID |-> EFI_GLOBAL_VARIABLE_GUID, Attr |-> DefaultAttr,
     Data |-> data, Count |-> <<0, 0, 0, 3>>, PkIdx |-> <<0, 0>>,
     Time |-> <<1, 2, 3, 4, 5, 6, 7, 8>>]

\* a record in the layout GetVarList reads: 32 bytes up to pkIdx, nameSize at
\* 36, dataSize at 40, the GUID at 44, the name at 60, then the data
DiskRecord(st, v) ==
    LET name == UCS16_Bytes(v.Name)
        body == PutUint16(VarMagic) \o <<st, 0>>
                  \o PutLE(v.Attr) \o PutLE(v.Count) \o v.Time \o Repeat(0, 8)
                  \o PutLE(v.PkIdx) \o PutLE(Uint32Of(Len(name)))
                  \o PutLE(Uint32Of(Len(v.Data)))
                  \o GUID_BytesLE(v.GUID) \o name \o v.Data
    IN body \o Repeat(FillerByte, (4 - (Len(body) % 4)) % 4)

\* valid "A", a second valid "A", valid "B", and a deleted "A"
RecInputs ==
    { [st |-> VarValid, v |-> DiskVar(<<65>>, <<1, 2>>)],
      [st |-> VarValid, v |-> DiskVar(<<65>>, <<9>>)],
      [st |-> VarValid, v |-> DiskVar(<<66>>, <<>>)],
      [st |-> 60,       v |-> DiskVar(<<65>>, <<7, 7>>)] }

TailKinds == {"none", "erased", "zero", "short", "half", "cut"}

\* what follows the records of an input image
TailBytes(kind) ==
    CASE kind = "none"   -> <<>>
      [] kind = "erased" -> Repeat(FillerByte, 48)
      [] kind = "zero"   -> Repeat(0, 48)
      [] kind = "short"  -> Repeat(FillerByte, 8)
      [] kind = "half"   -> SubSeq(DiskRecord(VarValid, DiskVar(<<65>>, <<1, 2>>)), 1, 48)
      [] kind = "cut"    -> SubSeq(DiskRecord(VarValid, DiskVar(<<65>>, <<1, 2>>)), 1, 64)

ImagePrefix == <<1, 2, 3, 4>>

RecordBytes(recs) == Flatten([i \in 1..Len(recs) |-> DiskRecord(recs[i].st, recs[i].v)])

ImageBytes(im) == ImagePrefix \o RecordBytes(im.recs) \o TailBytes(im.tail)

\* the offset just past the records of the input image
RecordsEnd == Len(ImagePrefix) + Len(RecordBytes(img.recs))

ImageInputs == {[recs |-> r, tail |-> t] : r \in SeqsUpTo(RecInputs, MaxRecords), t \in TailKinds}

InitCodec ==
    /\ \/ /\ cpc = "encode"
          /\ var \in VarInputs
          /\ img = NoImage
          /\ ImageIdle
       \/ /\ cpc = "image"
          /\ var = NoVar
          /\ img \in ImageInputs
          /\ FileData = ImageBytes(img)
          /\ Start = Len(ImagePrefix)
          /\ End \in {Len(FileData), Len(FileData) + 4, RecordsEnd + 4}
                      \cup (IF img.recs = <<>> THEN {} ELSE {RecordsEnd - 4})
    /\ LoopIdle
    /\ GuidIdle /\ PathIdle /\ StoreIdle
    /\ ScanIdle /\ DiskIdle /\ EnvIdle

NextCodec ==
    \/ CallBytesVar /\ UNCHANGED <<guidVars, pathVars, storeVars, scanVars, diskVars, envVars>>
    \/ GetVarListEnter /\ UNCHANGED <<guidVars, pathVars, storeVars, scanVars, diskVars, envVars>>
    \/ GetVarListEnd /\ UNCHANGED <<guidVars, pathVars, storeVars, scanVars, diskVars, envVars>>
    \/ GetVarListShort /\ UNCHANGED <<guidVars, pathVars, storeVars, scanVars, diskVars, envVars>>
    \/ GetVarListFree /\ UNCHANGED <<guidVars, pathVars, storeVars, scanVars, diskVars, envVars>>
    \/ GetVarListSkip /\ UNCHANGED <<guidVars, pathVars, storeVars, scanVars, diskVars, envVars>>
    \/ GetVarListPanic /\ UNCHANGED <<guidVars, pathVars, storeVars, scanVars, diskVars, envVars>>
    \/ GetVarListTruncated /\ UNCHANGED <<guidVars, pathVars, storeVars, scanVars, diskVars, envVars>>
    \/ GetVarListStore /\ UNCHANGED <<guidVars, pathVars, storeVars, scanVars, diskVars, envVars>>

SpecCodec == InitCodec /\ [][NextCodec]_vars

\* C3: for every variable v, GetVarList on BytesVar(v) returns without
\* aborting a list holding exactly v, equal in all seven fields, and
\* len(BytesVar(v)) is a multiple of 4.
C3_RecordRoundTrip ==
    /\ cpc = "encoded" => Len(FileData) % 4 = 0
    /\ (cpc = "encoded" /\ dpc # "idle") => dpc # "panic"
    /\ (cpc = "encoded" /\ dpc = "done") => varlist = MapSet(EmptyMap, var.Name, var)

\* the valid records of a record sequence, a later one replacing an earlier
\* one of the same name
RECURSIVE ValidRecords(_)
ValidRecords(recs) ==
    IF recs = <<>> THEN EmptyMap
    ELSE LET r == recs[Len(recs)]
             before == ValidRecords(SubSeq(recs, 1, Len(recs) - 1))
         IN IF r.st = VarValid THEN MapSet(before, r.v.Name, r.v) ELSE before

\* the first offset after the records lies inside the region and does not
\* start with 0x55aa
FreeSpaceReached ==
    /\ cpc = "image"
    /\ RecordsEnd < End
    /\ RecordsEnd + 2 <= Len(FileData)
    /\ Uint16(FileData, RecordsEnd) # VarMagic

\* C10: when the first record offset whose leading 16-bit value is not 0x55aa
\* is reached, GetVarList returns there without aborting; its result holds
\* every valid record before that offset and nothing from the bytes after it.
C10_StopsAtFreeSpace ==
    FreeSpaceReached =>
        /\ dpc # "panic"
        /\ dpc = "loop" => pos <= RecordsEnd
        /\ dpc = "done" => pos = RecordsEnd /\ varlist = ValidRecords(img.recs)

C10_Witness ==
    /\ FreeSpaceReached
    /\ dpc = "done"
    /\ img.tail = "erased"
    /\ Len(img.recs) = 2
    /\ pos = RecordsEnd
    /\ DOMAIN varlist = {<<65>>, <<66>>}

\* where record i of the input image starts, and the length of its span:
\* the 60 bytes before the name, the name and the data
RecOffset(i) == Len(ImagePrefix) + Len(RecordBytes(SubSeq(img.recs, 1, i - 1)))
RecSpan(i) == 60 + UCS16_Size(NewUCS16String(img.recs[i].v.Name)) + Len(img.recs[i].v.Data)

\* C15: every variable GetVarList has put into its result comes from a record
\* whose whole span, 60 + nameSize + dataSize bytes, lies inside [Start, End),
\* also when the file goes on beyond End.
C15_RecordsInsideRegion ==
    cpc = "image" =>
        \A n \in DOMAIN varlist :
            \E i \in 1..Len(img.recs) :
                /\ img.recs[i].st = VarValid
                /\ img.recs[i].v = varlist[n]
                /\ Start <= RecOffset(i)
                /\ RecOffset(i) + RecSpan(i) <= End

\* the records of the input image all lie inside the region and the file
RecordsInRegion ==
    /\ cpc = "image"
    /\ RecordsEnd <= End
    /\ RecordsEnd <= Len(FileData)

\* C21: a record with magic 0x55aa whose state is not 0x3f is not put into
\* the result, and the position moves on by 60 + nameSize + dataSize rounded
\* up to a multiple of 4: the loop stands only on record starts, with exactly
\* the valid records before the position decoded, and it returns with every
\* valid record of the region.
C21_SkippedRecordsConsumed ==
    RecordsInRegion =>
        /\ dpc = "loop" =>
              \E k \in 1..(Len(img.recs) + 1) :
                  /\ pos = RecOffset(k)
                  /\ varlist = ValidRecords(SubSeq(img.recs, 1, k - 1))
        /\ dpc = "done" => varlist = ValidRecords(img.recs)

C21_Witness ==
    /\ RecordsInRegion
    /\ dpc = "done"
    /\ Len(img.recs) = 2
    /\ img.recs[1].st # VarValid
    /\ img.recs[2].st = VarValid
    /\ DOMAIN varlist = {img.recs[2].v.Name}

---------------------------------------------------------------------------
(* Boot variables: the structures SetBootOrder, SetBootEntry and the       *)
(* queries build and read.  They are the same in edk2.go (methods of the   *)
(* variable list) and in the EfiVariableStore (methods of the store).      *)

BootPrefix    == <<66, 111, 111, 116>>                          \* "Boot"
BootOrderName == <<66, 111, 111, 116, 79, 114, 100, 101, 114>>  \* "BootOrder"
BootNextName  == <<66, 111, 111, 116, 78, 101, 120, 116>>       \* "BootNext"

HexDigitUpper(d) == IF d < 10 THEN 48 + d ELSE 55 + d

\* %04X of a uint16
RECURSIVE FmtHexUpper(_, _)
FmtHexUpper(n, width) == IF width = 0 THEN <<>>
                         ELSE Append(FmtHexUpper(n \div 16, width - 1), HexDigitUpper(n % 16))

\* fmt.Sprintf("%s%04X", BootPrefix, id)
BootName(id) == BootPrefix \o FmtHexUpper(id, 4)

\* the variable SetBootOrder builds: the ids as little-endian uint16
NewBootOrderVar(bootOrder) ==
    [Name  |-> BootOrderName,
     GUID  |-> ParseGUID(EFI_GLOBAL_VARIABLE_GUID_STR).guid,
     Attr  |-> DefaultAttr,
     Data  |-> Flatten([i \in 1..Len(bootOrder) |-> PutUint16(bootOrder[i])]),
     Count |-> <<0, 0, 0, 0>>, PkIdx |-> <<0, 0>>, Time |-> Repeat(0, 8)]

\* the variable SetBootEntry builds; data is what entry.Bytes() returned
NewBootEntryVar(id, data) ==
    [Name  |-> BootName(id),
     GUID  |-> EFI_GLOBAL_VARIABLE_GUID,
     Attr  |-> DefaultAttr,
     Data  |-> data,
     Count |-> <<0, 0, 0, 0>>, PkIdx |-> <<0, 0>>, Time |-> Repeat(0, 8)]

\* the errors of GetBootOrder
BootOrderNotFound == "BootOrder variable not found"
BootOrderMalformed == "invalid boot order data length"

\* GetBootOrder without the test of the data length
GetBootOrderMutNoParity(m) ==
    IF BootOrderName \notin DOMAIN m
    THEN [err |-> TRUE, msg |-> BootOrderNotFound, ret |-> <<>>]
    ELSE [err |-> FALSE, msg |-> "",
          ret |-> [i \in 1..(Len(m[BootOrderName].Data) \div 2) |->
                     Uint16(m[BootOrderName].Data, 2 * (i - 1))]]

\* GetBootOrder on the map m
GetBootOrder(m) ==
    IF BootOrderName \notin DOMAIN m
    THEN [err |-> TRUE, msg |-> BootOrderNotFound, ret |-> <<>>]
    ELSE IF Len(m[BootOrderName].Data) % 2 # 0
    THEN [err |-> TRUE, msg |-> BootOrderMalformed, ret |-> <<>>]
    ELSE [err |-> FALSE, msg |-> "",
          ret |-> [i \in 1..(Len(m[BootOrderName].Data) \div 2) |->
                     Uint16(m[BootOrderName].Data, 2 * (i - 1))]]

\* strings.HasPrefix / strings.TrimPrefix
HasPrefix(s, prefix) == Len(s) >= Len(prefix) /\ SubSeq(s, 1, Len(prefix)) = prefix
TrimPrefix(s, prefix) == IF HasPrefix(s, prefix) THEN SubSeq(s, Len(prefix) + 1, Len(s)) ELSE s

\* the names of m that ListBootEntries does not skip
BootNames(m) == {n \in DOMAIN m : HasPrefix(n, BootPrefix)}

\* ListBootEntries on the map m: the set of results the map's iteration
\* order allows.  Any name with prefix "Boot" whose suffix ParseUint rejects
\* makes the call return the error; otherwise each id maps to an entry holding
\* the Attr of a variable with that id.
ListBootEntries(m) ==
    LET bad == {n \in BootNames(m) : ParseUint(TrimPrefix(n, BootPrefix), 16).err}
        idOf(n) == ParseUint(TrimPrefix(n, BootPrefix), 16).val
        ids == {idOf(n) : n \in BootNames(m)}
    IN IF bad # {} THEN {[err |-> TRUE, ret |-> EmptyMap]}
       ELSE {[err |-> FALSE, ret |-> f] :
               f \in {g \in [ids -> {[Attr |-> m[n].Attr] : n \in BootNames(m)}] :
                        \A id \in ids : \E n \in BootNames(m) :
                            idOf(n) = id /\ g[id] = [Attr |-> m[n].Attr]}}

\* the ids of order that have an entry in allEntries, mapped to that entry
RECURSIVE OrderEntries(_, _)
OrderEntries(order, allEntries) ==
    IF order = <<>> THEN <<>>
    ELSE IF Head(order) \in DOMAIN allEntries
         THEN <<allEntries[Head(order)]>> \o OrderEntries(Tail(order), allEntries)
         ELSE OrderEntries(Tail(order), allEntries)

\* GetOrderedBootEntries on the map m: the set of possible results
GetOrderedBootEntries(m) ==
    IF GetBootOrder(m).err THEN {[err |-> TRUE, ret |-> <<>>]}
    ELSE {IF r.err THEN [err |-> TRUE, ret |-> <<>>]
          ELSE [err |-> FALSE, ret |-> OrderEntries(GetBootOrder(m).ret, r.ret)] :
             r \in ListBootEntries(m)}

\* the outcome of a call, as kept in last
Outcome(op, arg, panic, err, ret) ==
    [op |-> op, arg |-> arg, panic |-> panic, err |-> err, ret |-> ret]

---------------------------------------------------------------------------
(* SpecImage: an Edk2VarStore whose variable list (the result of           *)
(* GetVarList on a region without records) is changed through the          *)
(* EfiVarList methods and by map assignment and delete, and serialised by  *)
(* BytesVarList and BytesVarStore.                                         *)

MaxIds == 2

BootIds  == {1, 3}
EntryIds == {1, 3}

OrderInputs == SeqsUpTo(BootIds, MaxIds)

\* results of entry.Bytes()
EntryInputs == {<<>>, <<1, 0, 0, 0, 0, 0>>}

RegionSizes == {0, 72, 76, 148, 300}

ImageSuffix == <<9, 8, 7>>

\* EfiVarList.SetBootOrder (edk2.go)
EfiVarList_SetBootOrder(bootOrder) ==
    /\ dpc = "done" /\ cpc \in {"store", "persist"}
    /\ varlist' = MapSet(varlist, BootOrderName, NewBootOrderVar(bootOrder))
    /\ last' = Outcome("SetBootOrder", <<>>, FALSE, FALSE, <<>>)
    /\ UNCHANGED <<pos, dpc, codecVars, imageVars, VarList>>

\* EfiVarList.SetBootEntry (edk2.go)
EfiVarList_SetBootEntry(id, data) ==
    /\ dpc = "done" /\ cpc \in {"store", "persist"}
    /\ varlist' = MapSet(varlist, BootName(id), NewBootEntryVar(id, data))
    /\ last' = Outcome("SetBootEntry", <<>>, FALSE, FALSE, <<>>)
    /\ UNCHANGED <<pos, dpc, codecVars, imageVars, VarList>>

\* EfiVarList.DeleteBootEntry (edk2.go)
EfiVarList_DeleteBootEntry(id) ==
    /\ dpc = "done" /\ cpc \in {"store", "persist"}
    /\ varlist' = MapDelete(varlist, BootName(id))
    /\ last' = Outcome("DeleteBootEntry", <<>>, FALSE, FALSE, <<>>)
    /\ UNCHANGED <<pos, dpc, codecVars, imageVars, VarList>>

\* set: varlist[v.Name] = v
EfiVarList_Set(v) ==
    /\ dpc = "done" /\ cpc = "store"
    /\ varlist' = MapSet(varlist, v.Name, v)
    /\ last' = Outcome("Set", <<>>, FALSE, FALSE, <<>>)
    /\ UNCHANGED <<pos, dpc, codecVars, imageVars, VarList>>

\* delete: delete(varlist, name)
EfiVarList_Delete(name) ==
    /\ dpc = "done" /\ cpc = "store"
    /\ varlist' = MapDelete(varlist, name)
    /\ last' = Outcome("Delete", <<>>, FALSE, FALSE, <<>>)
    /\ UNCHANGED <<pos, dpc, codecVars, imageVars, VarList>>

\* vs.BytesVarList(varlist)
CallBytesVarList ==
    /\ dpc = "done" /\ cpc = "store"
    /\ last' = Outcome("BytesVarList", <<>>, FALSE,
                       BytesVarList(varlist).err, BytesVarList(varlist).bytes)
    /\ UNCHANGED <<loopVars, codecVars, imageVars, VarList>>

\* vs.BytesVarStore(varlist); vs.FileData[vs.End:] is out of range when
\* End > len(FileData)
CallBytesVarStore ==
    /\ dpc = "done" /\ cpc = "store"
    /\ last' = IF ~BytesVarStore(varlist).err /\ End > Len(FileData)
               THEN Outcome("BytesVarStore", <<>>, TRUE, FALSE, <<>>)
               ELSE Outcome("BytesVarStore", <<>>, FALSE,
                            BytesVarStore(varlist).err, BytesVarStore(varlist).bytes)
    /\ UNCHANGED <<loopVars, codecVars, imageVars, VarList>>

\* the geometries: no bytes or some bytes around the region, and one store
\* whose End lies past the end of the file
Geometries ==
    {[prefix |-> <<>>, size |-> n, suffix |-> <<>>, over |-> 0] : n \in RegionSizes}
      \cup {[prefix |-> ImagePrefix, size |-> n, suffix |-> ImageSuffix, over |-> 0] :
               n \in RegionSizes}
      \cup {[prefix |-> ImagePrefix, size |-> 72, suffix |-> <<>>, over |-> 4]}

InitImage ==
    /\ \E g \in Geometries :
          /\ FileData = g.prefix \o Repeat(0, g.size) \o g.suffix
          /\ Start = Len(g.prefix)
          /\ End = Len(g.prefix) + g.size + g.over
    /\ pos = Start /\ varlist = EmptyMap /\ dpc = "done"
    /\ var = NoVar /\ img = NoImage /\ cpc = "store"
    /\ GuidIdle /\ PathIdle /\ StoreIdle
    /\ ScanIdle /\ DiskIdle /\ EnvIdle

NextImage ==
    \/ \E bootOrder \in OrderInputs :
          EfiVarList_SetBootOrder(bootOrder) /\ UNCHANGED <<guidVars, pathVars, scanVars, diskVars, envVars>>
    \/ \E id \in EntryIds, data \in EntryInputs :
          EfiVarList_SetBootEntry(id, data) /\ UNCHANGED <<guidVars, pathVars, scanVars, diskVars, envVars>>
    \/ \E id \in EntryIds :
          EfiVarList_DeleteBootEntry(id) /\ UNCHANGED <<guidVars, pathVars, scanVars, diskVars, envVars>>
    \/ EfiVarList_Set(DiskVar(<<65>>, <<1, 2>>)) /\ UNCHANGED <<guidVars, pathVars, scanVars, diskVars, envVars>>
    \/ \E name \in {<<65>>, BootOrderName} :
          EfiVarList_Delete(name) /\ UNCHANGED <<guidVars, pathVars, scanVars, diskVars, envVars>>
    \/ CallBytesVarList /\ UNCHANGED <<guidVars, pathVars, scanVars, diskVars, envVars>>
    \/ CallBytesVarStore /\ UNCHANGED <<guidVars, pathVars, scanVars, diskVars, envVars>>

SpecImage == InitImage /\ [][NextImage]_vars

\* the size of one encoded variable: the 36 header bytes BytesVar writes, the
\* GUID, the name with its terminator and the data, rounded up to 4
EncodedSize(v) == 4 * ((36 + 16 + 2 * Len(v.Name) + 2 + Len(v.Data) + 3) \div 4)

RECURSIVE TotalEncodedSize(_, _)
TotalEncodedSize(vl, names) ==
    IF names = {} THEN 0
    ELSE LET n == CHOOSE x \in names : TRUE
         IN EncodedSize(vl[n]) + TotalEncodedSize(vl, names \ {n})

\* C1: in a store with 0 <= Start <= End <= len(FileData), after any sequence
\* of changes to the variable list, a successful BytesVarStore returns
\* len(FileData) bytes that equal FileData before Start and from End on, and
\* that hold between Start and End the encoded variables followed only by 0xff.
C1_ImageFrame ==
    (last.op = "BytesVarStore" /\ ~last.err /\ ~last.panic
       /\ 0 <= Start /\ Start <= End /\ End <= Len(FileData))
        => LET encoded == EncodeInOrder(varlist, SortStrings(DOMAIN varlist))
           IN /\ Len(last.ret) = Len(FileData)
              /\ \A i \in 1..Start : last.ret[i] = FileData[i]
              /\ \A i \in (End + 1)..Len(FileData) : last.ret[i] = FileData[i]
              /\ Len(encoded) = TotalEncodedSize(varlist, DOMAIN varlist)
              /\ Len(encoded) <= End - Start
              /\ SubSeq(last.ret, Start + 1, Start + Len(encoded)) = encoded
              /\ \A i \in (Start + Len(encoded) + 1)..End : last.ret[i] = FillerByte

C1_Witness ==
    /\ last.op = "BytesVarStore" /\ ~last.err /\ ~last.panic
    /\ Start = 4 /\ End = 304 /\ Len(FileData) = 307
    /\ DOMAIN varlist = {BootOrderName, BootName(1), <<65>>}
    /\ Len(last.ret) = 307
    /\ last.ret[304] = FillerByte
    /\ SubSeq(last.ret, 305, 307) = ImageSuffix

\* C2: BytesVarList succeeds exactly when the encoded size of the list is at
\* most End - Start; a list of exactly End - Start bytes succeeds, a larger
\* one fails and returns no bytes.
C2_CapacityBoundary ==
    last.op = "BytesVarList" =>
        /\ last.err <=> TotalEncodedSize(varlist, DOMAIN varlist) > End - Start
        /\ last.err => last.ret = <<>>
        /\ ~last.err => Len(last.ret) = TotalEncodedSize(varlist, DOMAIN varlist)

C2_Witness ==
    /\ last.op = "BytesVarList" /\ ~last.err
    /\ End - Start = 148
    /\ Len(last.ret) = 148
    /\ DOMAIN varlist = {BootOrderName, BootName(3)}

---------------------------------------------------------------------------
(* Spec: the EfiVariableStore.  NewEfiVariableStore leaves VarList nil;    *)
(* WriteVarStore installs the list its caller passes.  An assignment to an *)
(* entry of a nil map aborts the program, reading or deleting from one     *)
(* does not.                                                               *)

MaxOrder == 3

StoreBootIds == {1, 3, 5}

StoreOrderInputs == SeqsUpTo(StoreBootIds, MaxOrder)

\* a Boot#### variable that differs from the one SetBootEntry builds by Attr
CallerEntry(id, attr) ==
    [NewBootEntryVar(id, <<1, 0, 0, 0, 0, 0>>) EXCEPT !.Attr = attr]

CallerVar(name, data) ==
    [Name |-> name, GUID |-> EFI_GLOBAL_VARIABLE_GUID, Attr |-> DefaultAttr,
     Data |-> data, Count |-> <<0, 0, 0, 0>>, PkIdx |-> <<0, 0>>, Time |-> Repeat(0, 8)]

\* the map holding the variables of the set vs under their names
ListOf(vs) == [n \in {v.Name : v \in vs} |-> CHOOSE v \in vs : v.Name = n]

\* the lists callers hand to WriteVarStore
CallerLists ==
    { EmptyMap,
      ListOf({CallerEntry(1, <<0, 1>>), CallerEntry(3, <<0, 7>>)}),
      ListOf({CallerEntry(1, <<0, 1>>), CallerVar(BootOrderName, <<3, 0, 1>>)}),
      ListOf({CallerVar(<<65>>, <<1, 2>>), CallerVar(BootNextName, <<1, 0>>)}) }

\* the orders in which ranging over a map of the names S can visit them
Orders(S) == {f \in [1..Cardinality(S) -> S] : \A n \in S : \E i \in DOMAIN f : f[i] = n}

\* ToFwJson: the variables in the order the map's iteration visits them
ToFwJson(vl) == {[i \in DOMAIN o |-> vl[o[i]]] : o \in Orders(DOMAIN vl)}

\* WriteVarStore fails before it touches vs.VarList (the JSON file cannot be
\* opened or written, or virt-fw-vars fails)
WriteVarStoreFails ==
    /\ cpc = "live" /\ ~last.panic
    /\ last' = Outcome("WriteVarStore", <<>>, FALSE, TRUE, <<>>)
    /\ UNCHANGED <<VarList, codecVars, imageVars, loopVars>>

\* WriteVarStore succeeds: the JSON holds ToFwJson's sequence, vs.VarList = varlist
WriteVarStore(vl) ==
    /\ cpc = "live" /\ ~last.panic
    /\ \E fwj \in ToFwJson(vl) :
          last' = Outcome("WriteVarStore", <<>>, FALSE, FALSE,
                          [i \in DOMAIN fwj |-> fwj[i].Name])
    /\ VarList' = [nil |-> FALSE, m |-> vl]
    /\ UNCHANGED <<codecVars, imageVars, loopVars>>

\* SetBootOrder: vs.VarList["BootOrder"] = variable
SetBootOrder(bootOrder) ==
    /\ cpc = "live" /\ ~last.panic
    /\ IF VarList.nil
       THEN /\ last' = Outcome("SetBootOrder", bootOrder, TRUE, FALSE, <<>>)
            /\ UNCHANGED VarList
       ELSE /\ last' = Outcome("SetBootOrder", bootOrder, FALSE, FALSE, <<>>)
            /\ VarList' = [VarList EXCEPT !.m = MapSet(@, BootOrderName, NewBootOrderVar(bootOrder))]
    /\ UNCHANGED <<codecVars, imageVars, loopVars>>

\* SetBootEntry: vs.VarList[name] = variable
SetBootEntry(id, data) ==
    /\ cpc = "live" /\ ~last.panic
    /\ IF VarList.nil
       THEN /\ last' = Outcome("SetBootEntry", <<id>>, TRUE, FALSE, <<>>)
            /\ UNCHANGED VarList
       ELSE /\ last' = Outcome("SetBootEntry", <<id>>, FALSE, FALSE, <<>>)
            /\ VarList' = [VarList EXCEPT !.m = MapSet(@, BootName(id), NewBootEntryVar(id, data))]
    /\ UNCHANGED <<codecVars, imageVars, loopVars>>

\* DeleteBootEntry: delete(vs.VarList, name)
DeleteBootEntry(id) ==
    /\ cpc = "live" /\ ~last.panic
    /\ last' = Outcome("DeleteBootEntry", <<id>>, FALSE, FALSE, <<>>)
    /\ VarList' = [VarList EXCEPT !.m = MapDelete(@, BootName(id))]
    /\ UNCHANGED <<codecVars, imageVars, loopVars>>

CallGetBootOrder ==
    /\ cpc = "live" /\ ~last.panic
    /\ LET r == GetBootOrder(VarList.m)
       IN last' = Outcome("GetBootOrder", <<>>, FALSE, r.err,
                          IF r.err THEN r.msg ELSE r.ret)
    /\ UNCHANGED <<VarList, codecVars, imageVars, loopVars>>

CallListBootEntries ==
    /\ cpc = "live" /\ ~last.panic
    /\ \E r \in ListBootEntries(VarList.m) :
          last' = Outcome("ListBootEntries", <<>>, FALSE, r.err, r.ret)
    /\ UNCHANGED <<VarList, codecVars, imageVars, loopVars>>

CallGetOrderedBootEntries ==
    /\ cpc = "live" /\ ~last.panic
    /\ \E r \in GetOrderedBootEntries(VarList.m) :
          last' = Outcome("GetOrderedBootEntries", <<>>, FALSE, r.err, r.ret)
    /\ UNCHANGED <<VarList, codecVars, imageVars, loopVars>>

\* NewEfiVariableStore on a file for which virt-fw-vars wrote no JSON
Init ==
    /\ VarList = [nil |-> TRUE, m |-> EmptyMap]
    /\ last = NoCall
    /\ var = NoVar /\ img = NoImage /\ cpc = "live"
    /\ ImageIdle /\ LoopIdle /\ GuidIdle /\ PathIdle
    /\ ScanIdle /\ DiskIdle /\ EnvIdle

Next ==
    \/ WriteVarStoreFails /\ UNCHANGED <<guidVars, pathVars, scanVars, diskVars, envVars>>
    \/ \E vl \in CallerLists : WriteVarStore(vl) /\ UNCHANGED <<guidVars, pathVars, scanVars, diskVars, envVars>>
    \/ \E bootOrder \in StoreOrderInputs :
          SetBootOrder(bootOrder) /\ UNCHANGED <<guidVars, pathVars, scanVars, diskVars, envVars>>
    \/ \E id \in EntryIds : SetBootEntry(id, <<>>) /\ UNCHANGED <<guidVars, pathVars, scanVars, diskVars, envVars>>
    \/ \E id \in EntryIds : DeleteBootEntry(id) /\ UNCHANGED <<guidVars, pathVars, scanVars, diskVars, envVars>>
    \/ CallGetBootOrder /\ UNCHANGED <<guidVars, pathVars, scanVars, diskVars, envVars>>
    \/ CallListBootEntries /\ UNCHANGED <<guidVars, pathVars, scanVars, diskVars, envVars>>
    \/ CallGetOrderedBootEntries /\ UNCHANGED <<guidVars, pathVars, scanVars, diskVars, envVars>>

Spec == Init /\ [][Next]_vars

\* C6: SetBootOrder(ids) completes, and GetBootOrder on the store it leaves
\* returns exactly ids, whatever the store held before.
C6_BootOrderRoundTrip ==
    last.op = "SetBootOrder" =>
        /\ ~last.panic /\ ~last.err
        /\ ~GetBootOrder(VarList.m).err
        /\ GetBootOrder(VarList.m).ret = last.arg

\* strictly ascending in Go's string order
IsAscending(names) ==
    \A i \in 1..(Len(names) - 1) : StrLess(names[i], names[i + 1])

\* C7: a serialisation of the variable list emits the variables in ascending
\* name order, whatever the map's iteration order.
C7_SortedSerialisation ==
    (last.op = "WriteVarStore" /\ ~last.err) => IsAscending(last.ret)

\* the ids of names made of "Boot" and a hex number below 65536
HexBootIds(m) ==
    {ParseUint(TrimPrefix(n, BootPrefix), 16).val :
       n \in {x \in BootNames(m) : ~ParseUint(TrimPrefix(x, BootPrefix), 16).err}}

\* C9: ListBootEntries does not fail because of a name with prefix "Boot" and
\* a non-hex rest; it returns an entry for every Boot#### variable.
C9_NonHexSkipped ==
    last.op = "ListBootEntries" =>
        /\ ~last.err
        /\ DOMAIN last.ret = HexBootIds(VarList.m)

\* C8: with a BootOrder variable present (of even length),
\* GetOrderedBootEntries succeeds and returns, in BootOrder's sequence, the
\* entries of the ids that have a Boot#### variable.
C8_OrderedEntries ==
    (last.op = "GetOrderedBootEntries" /\ ~GetBootOrder(VarList.m).err) =>
        LET present == SelectSeq(GetBootOrder(VarList.m).ret,
                                 LAMBDA id : BootName(id) \in DOMAIN VarList.m)
        IN /\ ~last.err
           /\ Len(last.ret) = Len(present)
           /\ \A i \in 1..Len(present) :
                 last.ret[i].Attr = VarList.m[BootName(present[i])].Attr

\* C16: in every state of the store a BootOrder variable that is present has
\* data of even length.
C16_BootOrderEven ==
    BootOrderName \in DOMAIN VarList.m => Len(VarList.m[BootOrderName].Data) % 2 = 0

\* C17: GetBootOrder fails with "not found" when BootOrder is absent, with
\* "invalid length" when its data length is odd, otherwise returns len/2 ids,
\* id i being data[2i] + 256 * data[2i+1]; it never changes the store.
C17_GetBootOrder ==
    [][last'.op = "GetBootOrder" =>
         /\ VarList' = VarList
         /\ ~last'.panic
         /\ IF BootOrderName \notin DOMAIN VarList.m
            THEN last'.err /\ last'.ret = BootOrderNotFound
            ELSE LET data == VarList.m[BootOrderName].Data
                 IN IF Len(data) % 2 = 1
                    THEN last'.err /\ last'.ret = BootOrderMalformed
                    ELSE /\ ~last'.err
                         /\ Len(last'.ret) = Len(data) \div 2
                         /\ \A k \in 1..Len(last'.ret) :
                               last'.ret[k] = data[2 * k - 1] + 256 * data[2 * k]]_vars

C17_Witness ==
    /\ last.op = "GetBootOrder"
    /\ ~last.err
    /\ last.ret = <<3, 1, 5>>
    /\ VarList.m[BootOrderName].Data = <<3, 0, 1, 0, 5, 0>>

\* C18: on a store the constructor returned, SetBootOrder, SetBootEntry and
\* DeleteBootEntry complete without an error and without aborting.
C18_MutatorsComplete ==
    last.op \in {"SetBootOrder", "SetBootEntry", "DeleteBootEntry"}
        => (~last.panic /\ ~last.err)

\* NewDevicePath as a function of the bytes: the elements from pos on
RECURSIVE DecodePathFrom(_, _)
DecodePathFrom(data, p) ==
    IF ~(p < Len(data)) THEN <<>>
    ELSE LET elem == NewDevicePathElem(Slice(data, p, Len(data)))
         IN IF elem.DevType = EndDevType THEN <<>>
            ELSE <<elem>> \o DecodePathFrom(data, p + DevicePathElem_Size(elem))

\* BootEntry.Parse: the load option's attributes (32 bits), the length of
\* its device path (16 bits), the description up to its terminator, the
\* device path; an error when the fixed part does not fit
BootEntry_Parse(data) ==
    IF Len(data) < 6
    THEN [err |-> TRUE, entry |-> [Attr |-> <<0, 0>>, Title |-> <<>>, DevicePath |-> <<>>]]
    ELSE LET title == FromUCS16(data, 6)
             pstart == 6 + UCS16_Size(title)
             pend == IF pstart + Uint16(data, 4) > Len(data) THEN Len(data)
                     ELSE pstart + Uint16(data, 4)
         IN [err |-> FALSE,
             entry |-> [Attr |-> GetLE(data, 0, 2),
                        Title |-> UCS16_String(title),
                        DevicePath |-> IF pstart >= pend THEN <<>>
                                       ELSE DecodePathFrom(Slice(data, pstart, pend), 0)]]

\* GetBootEntry on the map m
GetBootEntry(m, id) ==
    IF BootName(id) \notin DOMAIN m
    THEN [err |-> TRUE, msg |-> "boot entry not found", ret |-> <<>>]
    ELSE IF BootEntry_Parse(m[BootName(id)].Data).err
    THEN [err |-> TRUE, msg |-> "failed to parse boot entry", ret |-> <<>>]
    ELSE [err |-> FALSE, msg |-> "", ret |-> BootEntry_Parse(m[BootName(id)].Data).entry]

\* C25: every entry ListBootEntries returns for an id is the entry
\* GetBootEntry returns for that id on the same store: the same attributes,
\* description and device path, decoded from the variable's data.  (The
\* entries ListBootEntries builds have an empty description and no path.)
C25_ListedEntriesDecoded ==
    (last.op = "ListBootEntries" /\ ~last.err) =>
        \A id \in DOMAIN last.ret :
            /\ ~GetBootEntry(VarList.m, id).err
            /\ last.ret[id].Attr = GetBootEntry(VarList.m, id).ret.Attr
            /\ GetBootEntry(VarList.m, id).ret.Title = <<>>
            /\ GetBootEntry(VarList.m, id).ret.DevicePath = <<>>

\* "Boot" and the four upper-case hex digits of id
SynthesizedName(id) ==
    LET digit(d) == IF d < 10 THEN 48 + d ELSE 55 + d
    IN <<66, 111, 111, 116, digit(id \div 4096), digit((id \div 256) % 16),
         digit((id \div 16) % 16), digit(id % 16)>>

\* C26: after SetBootEntry(id, e) the store holds the variable named "Boot"
\* and id as 4 upper-case hex digits; after DeleteBootEntry(id) it does not,
\* and the call reported no error.
C26_EntryWrittenByName ==
    /\ last.op = "SetBootEntry" =>
          (~last.panic /\ ~last.err /\ SynthesizedName(last.arg[1]) \in DOMAIN VarList.m)
    /\ last.op = "DeleteBootEntry" =>
          (~last.panic /\ ~last.err /\ SynthesizedName(last.arg[1]) \notin DOMAIN VarList.m)

\* On a store whose map exists, SetBootEntry and DeleteBootEntry change the
\* variable of the synthesized name and no other.
EntryFrameOnExistingMap ==
    [][(~VarList.nil /\ last'.op \in {"SetBootEntry", "DeleteBootEntry"}) =>
          LET name == SynthesizedName(last'.arg[1])
          IN /\ ~last'.panic /\ ~last'.err
             /\ \A n \in (DOMAIN VarList.m \cup DOMAIN VarList'.m) \ {name} :
                   /\ n \in DOMAIN VarList.m /\ n \in DOMAIN VarList'.m
                   /\ VarList'.m[n] = VarList.m[n]
             /\ (name \in DOMAIN VarList'.m) <=> (last'.op = "SetBootEntry")]_vars

---------------------------------------------------------------------------
(* The locator of edk2.go: FindNvData, ParseVolume, ParseVarStore.         *)

NvDataGUID ==
    [Data1 |-> <<36123, 21997>>, Data2 |-> 48831, Data3 |-> 16567,
     Data4 |-> <<130, 70, 216, 189, 125, 100, 237, 190>>]
FfsGUID ==
    [Data1 |-> <<35980, 58744>>, Data2 |-> 35389, Data3 |-> 20252,
     Data4 |-> <<153, 53, 137, 97, 133, 195, 45, 211>>]
AuthVarsGUID ==
    [Data1 |-> <<43763, 11384>>, Data2 |-> 38011, Data3 |-> 17306,
     Data4 |-> <<161, 128, 46, 20, 78, 195, 119, 146>>]

\* "8d1b55ed-bebf-40b7-8246-d8bd7d64edbe"
NvDataGUID_STR ==
    <<56, 100, 49, 98, 53, 53, 101, 100, 45, 98, 101, 98, 102, 45, 52, 48, 98, 55, 45, 56, 50, 52, 54, 45, 100, 56, 98, 100, 55, 100, 54, 52, 101, 100, 98, 101>>

\* "aaf32c78-947b-439a-a180-2e144ec37792"
AuthVarsGUID_STR ==
    <<97, 97, 102, 51, 50, 99, 55, 56, 45, 57, 52, 55, 98, 45, 52, 51, 57, 97, 45, 97, 49, 56, 48, 45, 50, 101, 49, 52, 52, 101, 99, 51, 55, 55, 57, 50>>

\* 0x4856465f as <<hi, lo>>
VolumeSignature == <<18518, 18015>>

VarStoreFormat == 90      \* 0x5a
VarStoreHealthy == 254    \* 0xfe
ScanStride == 1024

\* GUIDFromBytes(data): an error on fewer than 16 bytes
GUIDFromBytes(data) ==
    IF Len(data) < 16 THEN [err |-> TRUE, guid |-> ZeroGUID]
    ELSE [err |-> FALSE, guid |-> ParseBinGUID(data, 0)]

\* int(x) of a uint64 given as four 16-bit words, most significant first.
\* Values below 2^30 and above 2^64 - 2^30 are exact (the latter negative);
\* every other value is far outside the offsets of the model and is
\* represented by +-2^30, which compares with them the same way.
IntOfUint64(w) ==
    IF w[1] = 0 /\ w[2] = 0 /\ w[3] < 16384 THEN w[3] * 65536 + w[4]
    ELSE IF w[1] = 65535 /\ w[2] = 65535 /\ w[3] >= 49152
         THEN (w[3] - 65536) * 65536 + w[4]
    ELSE IF w[1] >= 32768 THEN -1073741824
    ELSE 1073741824

\* ParseVarStore(start): an index out of range aborts; a mismatch of GUID,
\* format or state is an error; otherwise Start and End are set from the
\* header, with no comparison against each other or len(FileData)
ParseVarStore(start) ==
    IF start + 22 > Len(FileData)
    THEN [panic |-> TRUE, err |-> FALSE, msg |-> "", Start |-> Start, End |-> End]
    ELSE LET g == ParseBinGUID(FileData, start)
             size == IntOfUint32(GetLE(FileData, start + 16, 2))
             storefmt == FileData[start + 21]
             state == FileData[start + 22]
             fail(m) == [panic |-> FALSE, err |-> TRUE, msg |-> m,
                         Start |-> Start, End |-> End]
         IN IF GUID_String(g) # AuthVarsGUID_STR THEN fail("unknown varstore guid")
            ELSE IF storefmt # VarStoreFormat THEN fail("unknown varstore format")
            ELSE IF state # VarStoreHealthy THEN fail("unknown varstore state")
            ELSE [panic |-> FALSE, err |-> FALSE, msg |-> "",
                  Start |-> start + 16 + 12, End |-> start + size]

\* ParseVolume, given what FindNvData returned
ParseVolume(found) ==
    IF found = -1
    THEN [panic |-> FALSE, err |-> TRUE, msg |-> "varstore not found",
          Start |-> Start, End |-> End]
    ELSE IF found + 60 > Len(FileData)
    THEN [panic |-> TRUE, err |-> FALSE, msg |-> "", Start |-> Start, End |-> End]
    ELSE LET g == ParseBinGUID(FileData, found + 16)
             sig == GetLE(FileData, found + 36, 2)
             hlen == Uint16(FileData, found + 44)
         IN IF sig # VolumeSignature
            THEN [panic |-> FALSE, err |-> TRUE, msg |-> "not a firmware volume",
                  Start |-> Start, End |-> End]
            ELSE IF GUID_String(g) # NvDataGUID_STR
            THEN [panic |-> FALSE, err |-> TRUE, msg |-> "not a variable store",
                  Start |-> Start, End |-> End]
            ELSE ParseVarStore(found + hlen)

\* the GUID FindNvData reads at offset+16
ScanGUID == GUIDFromBytes(Slice(FileData, scanOffset + 16, Len(FileData)))

\* NewEdk2VarStore: ReadFile has filled FileData; ParseVolume calls FindNvData
FindNvDataEnter ==
    /\ vpc = "new"
    /\ scanOffset' = 0
    /\ vpc' = "scan"
    /\ UNCHANGED <<imageVars, codecVars, loopVars, storeVars, diskVars, envVars>>

\* data[offset+16:] with offset+16 < 0, or panic(err)
FindNvDataPanic ==
    /\ vpc = "scan"
    /\ scanOffset + 64 < Len(FileData)
    /\ IF scanOffset + 16 < 0 THEN TRUE ELSE ScanGUID.err
    /\ vpc' = "panic"
    /\ last' = Outcome("NewEdk2VarStore", <<>>, TRUE, FALSE, "")
    /\ UNCHANGED <<scanOffset, VarList, imageVars, codecVars, loopVars, diskVars, envVars>>

\* guid.Equal(efi.FfsGUID): offset += int(tlen)
FindNvDataFfs ==
    /\ vpc = "scan"
    /\ scanOffset + 64 < Len(FileData)
    /\ scanOffset + 16 >= 0 /\ ~ScanGUID.err
    /\ GUID_Equal(ScanGUID.guid, FfsGUID)
    /\ scanOffset' = scanOffset + IntOfUint64(GetLE(FileData, scanOffset + 32, 4))
    /\ UNCHANGED <<vpc, imageVars, codecVars, loopVars, storeVars, diskVars, envVars>>

\* any other GUID, the NvData GUID included: offset += 1024
FindNvDataStride ==
    /\ vpc = "scan"
    /\ scanOffset + 64 < Len(FileData)
    /\ scanOffset + 16 >= 0 /\ ~ScanGUID.err
    /\ ~GUID_Equal(ScanGUID.guid, FfsGUID)
    /\ scanOffset' = scanOffset + ScanStride
    /\ UNCHANGED <<vpc, imageVars, codecVars, loopVars, storeVars, diskVars, envVars>>

\* the loop ends: FindNvData returns -1, ParseVolume handles it and
\* NewEdk2VarStore returns what ParseVolume returned
FindNvDataReturn ==
    /\ vpc = "scan"
    /\ ~(scanOffset + 64 < Len(FileData))
    /\ LET r == ParseVolume(-1)
       IN /\ vpc' = IF r.panic THEN "panic" ELSE IF r.err THEN "failed" ELSE "built"
          /\ last' = Outcome("NewEdk2VarStore", <<>>, r.panic, r.err, r.msg)
          /\ Start' = r.Start
          /\ End' = r.End
    /\ UNCHANGED <<scanOffset, FileData, VarList, codecVars, loopVars, diskVars, envVars>>

\* vs.ParseVarStore(start) called on a store that holds the file's bytes
CallParseVarStore(start) ==
    /\ vpc = "new"
    /\ LET r == ParseVarStore(start)
       IN /\ vpc' = IF r.panic THEN "panic" ELSE IF r.err THEN "failed" ELSE "parsed"
          /\ last' = Outcome("ParseVarStore", <<start>>, r.panic, r.err, r.msg)
          /\ Start' = r.Start
          /\ End' = r.End
    /\ UNCHANGED <<scanOffset, FileData, VarList, codecVars, loopVars, diskVars, envVars>>

(* Input images: an optional leading volume, then a volume that is the     *)
(* NvData volume of Scenario A but for one fault.                          *)

\* the first 64 bytes of a volume: GUID at 16, a 64-bit field at 32 (whose
\* upper half ParseVolume reads as the signature), header length at 44
VolumeHeader(g, w64, hlen) ==
    Repeat(0, 16) \o GUID_BytesLE(g) \o PutLE(w64) \o Repeat(0, 4)
      \o PutUint16(hlen) \o Repeat(0, 18)

VarStoreHeader(g, size, storefmt, state) ==
    GUID_BytesLE(g) \o PutLE(Uint32Of(size)) \o <<storefmt, state>> \o Repeat(0, 6)

ScenarioHlen == 72       \* 0x48
ScenarioSize == 4096     \* 0x1000

Faults == {"none", "sig", "volguid", "vsguid", "format", "state",
           "size0", "sizebig", "hlenbig", "short"}

Leads == {"none", "other", "ffs", "ffs0", "ffsneg", "ffsbig"}

NvVolume(fault) ==
    LET whole ==
          VolumeHeader(IF fault = "volguid" THEN EFI_GLOBAL_VARIABLE_GUID ELSE NvDataGUID,
                       (IF fault = "sig" THEN <<0, 0>> ELSE VolumeSignature) \o <<0, 4168>>,
                       IF fault = "hlenbig" THEN 5000 ELSE ScenarioHlen)
            \o Repeat(0, ScenarioHlen - 64)
            \o VarStoreHeader(IF fault = "vsguid" THEN ZeroGUID ELSE AuthVarsGUID,
                              CASE fault = "size0" -> 0
                                [] fault = "sizebig" -> 8192
                                [] OTHER -> ScenarioSize,
                              IF fault = "format" THEN 0 ELSE VarStoreFormat,
                              IF fault = "state" THEN 0 ELSE VarStoreHealthy)
            \o Repeat(FillerByte, ScenarioSize - 28)
    IN IF fault = "short" THEN SubSeq(whole, 1, 80) ELSE whole

LeadBytes(lead) ==
    CASE lead = "none"   -> <<>>
      [] lead = "other"  -> VolumeHeader(ZeroGUID, <<0, 0, 0, 0>>, 0) \o Repeat(0, 960)
      [] lead = "ffs"    -> VolumeHeader(FfsGUID, <<0, 0, 0, 2048>>, 0) \o Repeat(0, 1984)
      [] lead = "ffs0"   -> VolumeHeader(FfsGUID, <<0, 0, 0, 0>>, 0) \o Repeat(0, 960)
      [] lead = "ffsneg" -> VolumeHeader(FfsGUID, <<65535, 65535, 65535, 64512>>, 0)
                              \o Repeat(0, 960)
      [] lead = "ffsbig" -> VolumeHeader(FfsGUID, <<0, 256, 0, 0>>, 0) \o Repeat(0, 960)

VolumeInputs == {[lead |-> l, fault |-> f] : l \in Leads, f \in Faults}

\* where the NvData volume of the input image begins, and its store header
NvOffset == Len(LeadBytes(img.lead))
NvHeaderOffset == NvOffset + ScenarioHlen

InitVolume ==
    /\ img \in VolumeInputs
    /\ FileData = LeadBytes(img.lead) \o NvVolume(img.fault)
    /\ Start = 0 /\ End = 0
    /\ var = NoVar /\ cpc = "volume"
    /\ scanOffset = 0 /\ vpc = "new"
    /\ LoopIdle /\ StoreIdle /\ DiskIdle /\ EnvIdle /\ GuidIdle /\ PathIdle

NextVolume ==
    \/ FindNvDataEnter /\ UNCHANGED <<guidVars, pathVars>>
    \/ FindNvDataPanic /\ UNCHANGED <<guidVars, pathVars>>
    \/ FindNvDataFfs /\ UNCHANGED <<guidVars, pathVars>>
    \/ FindNvDataStride /\ UNCHANGED <<guidVars, pathVars>>
    \/ FindNvDataReturn /\ UNCHANGED <<guidVars, pathVars>>
    \/ \E start \in {NvHeaderOffset, Len(FileData) - 8} :
          CallParseVarStore(start) /\ UNCHANGED <<guidVars, pathVars>>

SpecVolume == InitVolume /\ [][NextVolume]_vars

\* the leading volumes the scan steps over to stand on the NvData volume
SteppedOver == {"none", "other", "ffs"}

\* the scan of the input image reaches an offset whose GUID is NvData
ScanReachesNvData ==
    /\ img.lead \in SteppedOver
    /\ NvOffset + 64 < Len(FileData)
    /\ GUID_Equal(ParseBinGUID(FileData, NvOffset + 16), NvDataGUID)

NotFound == "varstore not found"

\* C12: the locator returns offset o exactly when its scan reaches an o whose
\* bytes at o+16 are the NvData GUID; so construction on an image whose scan
\* reaches the NvData volume does not end with "varstore not found".
C12_LocatorFindsVolume ==
    (last.op = "NewEdk2VarStore" /\ ScanReachesNvData)
        => ~(last.err /\ last.ret = NotFound)

ScenarioA == [lead |-> "none", fault |-> "none"]

\* C11: on the Scenario A image (signature, NvData GUID, header length 0x48,
\* store header of size 0x1000) construction succeeds with start = 0x64 and
\* end = 0x1048.
C11_ScenarioA ==
    (last.op = "NewEdk2VarStore" /\ img = ScenarioA)
        => (~last.panic /\ ~last.err /\ Start = 100 /\ End = 4168)

\* ParseVarStore alone, called at the store header of Scenario A, computes the
\* bounds of the scenario.
ScenarioAHeaderParses ==
    (last.op = "ParseVarStore" /\ img = ScenarioA /\ last.arg = <<ScenarioHlen>>)
        => (~last.panic /\ ~last.err /\ Start = 100 /\ End = 4168)

\* C13: construction fails with the error of the header check that fails:
\* a wrong signature is "not a firmware volume", a wrong store header GUID,
\* format or state is the matching "unknown varstore ..." error.
C13_HeaderChecks ==
    (last.op = "NewEdk2VarStore" /\ img.lead \in SteppedOver)
        => /\ img.fault = "sig" => (last.err /\ last.ret = "not a firmware volume")
           /\ img.fault = "vsguid" => (last.err /\ last.ret = "unknown varstore guid")
           /\ img.fault = "format" => (last.err /\ last.ret = "unknown varstore format")
           /\ img.fault = "state" => (last.err /\ last.ret = "unknown varstore state")

\* C14: whenever the store header has been accepted and the bounds are set,
\* 0 <= start <= end <= len(fileData).
C14_BoundsInvariant ==
    vpc = "parsed" => (0 <= Start /\ Start <= End /\ End <= Len(FileData))

\* C20: a locator step that reads a GUID where fewer than 16 bytes remain
\* returns an error and never aborts.
C20_GuidReadNeverAborts ==
    last.op = "ParseVarStore" => ~last.panic

\* the scan stands on a volume whose GUID is the FFS GUID
ScanOnFfs ==
    /\ vpc = "scan"
    /\ scanOffset + 64 < Len(FileData)
    /\ scanOffset + 16 >= 0
    /\ ~ScanGUID.err
    /\ GUID_Equal(ScanGUID.guid, FfsGUID)

\* the 64-bit length FindNvData adds to the offset on an FFS volume
FfsLength == IntOfUint64(GetLE(FileData, scanOffset + 32, 4))

\* C28: the locator terminates on every image: each iteration of its scan
\* strictly increases the offset, also on an FFS volume whose length field
\* is 0 or larger than the rest of the image.
C28_ScanAdvances ==
    ScanOnFfs => scanOffset + FfsLength > scanOffset

\* A length larger than the rest of the image does end the scan.
FfsBeyondImageEndsScan ==
    (ScanOnFfs /\ FfsLength >= Len(FileData)) => ~(scanOffset + FfsLength + 64 < Len(FileData))

---------------------------------------------------------------------------
(* SpecPersist: Edk2VarStore.WriteVarStore.  File is the content of the    *)
(* file the store was read from and is written back to; the caller's list  *)
(* is varlist.                                                             *)

TooSmall == "varstore is too small"

\* WriteVarStore that creates the file before it serialises the list
CallWriteVarStoreMutCreateFirst ==
    /\ dpc = "done" /\ cpc = "persist"
    /\ LET r == BytesVarStore(varlist)
       IN IF r.err
          THEN /\ last' = Outcome("WriteVarStore", <<>>, FALSE, TRUE, TooSmall)
               /\ File' = <<>>
          ELSE IF End > Len(FileData)
          THEN /\ last' = Outcome("WriteVarStore", <<>>, TRUE, FALSE, <<>>)
               /\ File' = <<>>
          ELSE /\ last' = Outcome("WriteVarStore", <<>>, FALSE, FALSE, <<>>)
               /\ File' = r.bytes
    /\ UNCHANGED <<loopVars, codecVars, imageVars, VarList>>

\* blob, err := vs.BytesVarStore(varlist); on err return it; else
\* os.WriteFile(filename, blob, 0644) succeeds
CallWriteVarStore ==
    /\ dpc = "done" /\ cpc = "persist"
    /\ LET r == BytesVarStore(varlist)
       IN IF r.err
          THEN /\ last' = Outcome("WriteVarStore", <<>>, FALSE, TRUE, TooSmall)
               /\ File' = File
          ELSE IF End > Len(FileData)
          THEN /\ last' = Outcome("WriteVarStore", <<>>, TRUE, FALSE, <<>>)
               /\ File' = File
          ELSE /\ last' = Outcome("WriteVarStore", <<>>, FALSE, FALSE, <<>>)
               /\ File' = r.bytes
    /\ UNCHANGED <<loopVars, codecVars, imageVars, VarList>>

\* the serialisation succeeds and os.WriteFile fails: the file is as it was
\* (it could not be opened) or empty (it was truncated and not written)
WriteVarStoreIOError ==
    /\ dpc = "done" /\ cpc = "persist"
    /\ ~BytesVarStore(varlist).err
    /\ End <= Len(FileData)
    /\ last' = Outcome("WriteVarStore", <<>>, FALSE, TRUE, "write")
    /\ File' \in {File, <<>>}
    /\ UNCHANGED <<loopVars, codecVars, imageVars, VarList>>

PersistOrders == {<<>>, <<1>>}

PersistGeometries ==
    {[prefix |-> ImagePrefix, size |-> n, suffix |-> ImageSuffix, over |-> 0] : n \in {72, 148}}
      \cup {[prefix |-> ImagePrefix, size |-> 72, suffix |-> <<>>, over |-> 4]}

InitPersist ==
    /\ \E g \in PersistGeometries :
          /\ FileData = g.prefix \o Repeat(0, g.size) \o g.suffix
          /\ Start = Len(g.prefix)
          /\ End = Len(g.prefix) + g.size + g.over
    /\ File = FileData
    /\ pos = Start /\ varlist = EmptyMap /\ dpc = "done"
    /\ var = NoVar /\ img = NoImage /\ cpc = "persist"
    /\ GuidIdle /\ PathIdle /\ StoreIdle /\ ScanIdle /\ EnvIdle

NextPersist ==
    \/ \E bootOrder \in PersistOrders :
          EfiVarList_SetBootOrder(bootOrder) /\ UNCHANGED <<guidVars, pathVars, scanVars, diskVars, envVars>>
    \/ \E data \in EntryInputs :
          EfiVarList_SetBootEntry(1, data) /\ UNCHANGED <<guidVars, pathVars, scanVars, diskVars, envVars>>
    \/ EfiVarList_DeleteBootEntry(1) /\ UNCHANGED <<guidVars, pathVars, scanVars, diskVars, envVars>>
    \/ CallWriteVarStore /\ UNCHANGED <<guidVars, pathVars, scanVars, envVars>>
    \/ WriteVarStoreIOError /\ UNCHANGED <<guidVars, pathVars, scanVars, envVars>>

SpecPersist == InitPersist /\ [][NextPersist]_vars

\* C19: a WriteVarStore that fails at serialisation ("varstore is too small")
\* leaves the file as it was and leaves the caller's list, FileData, Start
\* and End unchanged.
C19_FailedWriteWritesNothing ==
    [][(last'.op = "WriteVarStore" /\ last'.err /\ last'.ret = TooSmall)
          => /\ File' = File
             /\ varlist' = varlist
             /\ FileData' = FileData /\ Start' = Start /\ End' = End]_vars

\* a failed serialisation after an earlier write that changed the file
C19_Witness ==
    /\ last.op = "WriteVarStore" /\ last.err /\ last.ret = TooSmall
    /\ File # FileData
    /\ Len(File) = Len(FileData)
    /\ BytesVarList(varlist).err

---------------------------------------------------------------------------
(* SpecElem: the functions on single device path elements and on pairs of  *)
(* paths, each called on inputs from small sets; last holds the call.      *)

\* NewDevicePathElem of package main (part_006): the size is cut down to
\* len(data), then data[4:size] is taken; size < 4 is a slice out of range
Main_NewDevicePathElem(data) ==
    IF Len(data) < 4 THEN [panic |-> FALSE, elem |-> EndElem]
    ELSE LET size == IF Len(data) < Uint16(data, 2) THEN Len(data) % 65536
                     ELSE Uint16(data, 2)
         IN IF size < 4 THEN [panic |-> TRUE, elem |-> EndElem]
            ELSE [panic |-> FALSE,
                  elem |-> [DevType |-> data[1], SubType |-> data[2],
                            Data |-> Slice(data, 4, size)]]

\* ParseGUIDString: make([]byte, 16), nil
ParseGUIDString(g) == Repeat(0, 16)

\* DevicePathElem.SetGPT on a fresh element; pnr is two 16-bit words, poff and
\* plen are four, most significant first
SetGPT(pnr, poff, plen, g) ==
    [DevType |-> 4, SubType |-> 1,
     Data |-> PutLE(pnr) \o PutLE(poff) \o PutLE(plen) \o ParseGUIDString(g) \o <<2, 2>>]

CallNewDevicePathElem(data) ==
    /\ ppc = "call"
    /\ last' = Outcome("NewDevicePathElem", data, FALSE, FALSE, NewDevicePathElem(data))
    /\ UNCHANGED <<VarList, pathVars>>

CallMainNewDevicePathElem(data) ==
    /\ ppc = "call"
    /\ last' = Outcome("main.NewDevicePathElem", data,
                       Main_NewDevicePathElem(data).panic, FALSE,
                       Main_NewDevicePathElem(data).elem)
    /\ UNCHANGED <<VarList, pathVars>>

CallDevicePathEquals(p, other) ==
    /\ ppc = "call"
    /\ last' = Outcome("DevicePath.Equals", <<p, other>>, FALSE, FALSE,
                       DevicePath_Equals(p, other))
    /\ UNCHANGED <<VarList, pathVars>>

CallSetGPT(pnr, poff, plen, g) ==
    /\ ppc = "call"
    /\ last' = Outcome("SetGPT", <<pnr, poff, plen, g>>, FALSE, FALSE,
                       SetGPT(pnr, poff, plen, g))
    /\ UNCHANGED <<VarList, pathVars>>

\* inputs of NewDevicePathElem: the prefixes of headers with size fields
\* below 4, exact, and past the input, followed by two data bytes
ElemHeaders ==
    {<<t, st, lo, hi, 65, 66>> :
        t \in {1, EndDevType}, st \in {1, EndSubType}, lo \in {0, 3, 4, 5, 6, 9}, hi \in {0, 1}}

ElemByteInputs == {SubSeq(h, 1, n) : h \in ElemHeaders, n \in 0..6}

\* "Ab" and "aB" as UCS-2 with terminator, the latter also with bytes after
\* the terminator; "Ac"; and short data
FileTexts ==
    { <<65, 0, 98, 0, 0, 0>>, <<97, 0, 66, 0, 0, 0>>, <<97, 0, 66, 0, 0, 0, 7, 7>>,
      <<65, 0, 99, 0, 0, 0>>, <<>> }

EqualsElems ==
    {[DevType |-> k[1], SubType |-> k[2], Data |-> d] :
        k \in {<<4, 4>>, <<4, 1>>, <<3, 24>>}, d \in FileTexts}

EqualsPaths == {[Elements |-> es] : es \in SeqsUpTo(EqualsElems, 1)}
                 \cup {[Elements |-> <<e, [DevType |-> 3, SubType |-> 24, Data |-> <<1>>]>>] :
                         e \in EqualsElems}

GPTGuidInputs == {EFI_GLOBAL_VARIABLE_GUID_STR, NvDataGUID_STR}

InitElem ==
    /\ path = [Elements |-> <<>>] /\ psrc = "none" /\ pbytes = <<>>
    /\ ppos = 0 /\ pdecoded = <<>> /\ ppc = "call"
    /\ GuidIdle /\ CodecIdle /\ ImageIdle /\ LoopIdle /\ StoreIdle
    /\ ScanIdle /\ DiskIdle /\ EnvIdle

NextElem ==
    \/ \E data \in ElemByteInputs : CallNewDevicePathElem(data)
          /\ UNCHANGED <<guidVars, codecVars, imageVars, loopVars, scanVars, diskVars, envVars>>
    \/ \E data \in ElemByteInputs : CallMainNewDevicePathElem(data)
          /\ UNCHANGED <<guidVars, codecVars, imageVars, loopVars, scanVars, diskVars, envVars>>
    \/ \E p \in EqualsPaths, other \in EqualsPaths : CallDevicePathEquals(p, other)
          /\ UNCHANGED <<guidVars, codecVars, imageVars, loopVars, scanVars, diskVars, envVars>>
    \/ \E pnr \in {<<0, 1>>, <<1, 2>>}, poff \in {<<0, 0, 0, 2048>>},
          plen \in {<<0, 0, 16, 0>>}, g \in GPTGuidInputs :
          CallSetGPT(pnr, poff, plen, g)
          /\ UNCHANGED <<guidVars, codecVars, imageVars, loopVars, scanVars, diskVars, envVars>>

SpecElem == InitElem /\ [][NextElem]_vars

\* what the element decoder is to return on the input bytes b
DecodedElement(b) ==
    IF Len(b) < 4 THEN [DevType |-> 127, SubType |-> 255, Data |-> <<>>]
    ELSE LET size == b[3] + 256 * b[4]
         IN [DevType |-> b[1], SubType |-> b[2],
             Data |-> IF 4 <= size /\ size <= Len(b)
                      THEN [i \in 1..(size - 4) |-> b[4 + i]] ELSE <<>>]

\* C22: NewDevicePathElem never aborts; on fewer than 4 bytes it returns the
\* end element, otherwise the input's type and subtype with data bytes[4:size]
\* when 4 <= size <= len(input) and empty data otherwise.
C22_DecodeElementTotal ==
    last.op \in {"NewDevicePathElem", "main.NewDevicePathElem"}
        => (~last.panic /\ last.ret = DecodedElement(last.arg))

\* the decoder of package efi alone does what C22 says
EfiDecodeElementTotal ==
    last.op = "NewDevicePathElem"
        => (~last.panic /\ last.ret = DecodedElement(last.arg))

\* the text of a file-path element, in lower case
LowerText(e) == ToLower(UCS16_String(FromUCS16(e.Data, 0)))

C24_GPTElement ==
    last.op = "SetGPT" =>
        /\ last.ret.DevType = 4 /\ last.ret.SubType = 1
        /\ Len(last.ret.Data) = 38
        /\ Slice(last.ret.Data, 0, 4) = PutLE(last.arg[1])
        /\ Slice(last.ret.Data, 4, 12) = PutLE(last.arg[2])
        /\ Slice(last.ret.Data, 12, 20) = PutLE(last.arg[3])
        /\ Slice(last.ret.Data, 20, 36) = GUID_BytesLE(ParseGUID(last.arg[4]).guid)
        /\ Slice(last.ret.Data, 36, 38) = <<2, 2>>

---------------------------------------------------------------------------
(* SpecMutex: two callers of one EfiVariableStore, each running            *)
(* GetBootOrder and then SetBootOrder with its own id appended.  The store *)
(* has no lock; the callers either share a mutex of their own around the   *)
(* whole sequence (locking) or do not.                                     *)

Callers == {1, 2}

\* the id each caller appends
OwnId(c) == IF c = 1 THEN 1 ELSE 3

\* the caller's mu.Lock(), when the callers lock
Acquire(c) ==
    /\ cpc = "shared"
    /\ callers[c].pc = "idle"
    /\ locking => mutex = 0
    /\ mutex' = IF locking THEN c ELSE mutex
    /\ callers' = [callers EXCEPT ![c].pc = "get"]
    /\ UNCHANGED <<locking, ports, systems, storeVars>>

\* order, err := vs.GetBootOrder(); the caller gives up on an error
CallerGetBootOrder(c) ==
    /\ cpc = "shared"
    /\ callers[c].pc = "get"
    /\ LET r == GetBootOrder(VarList.m)
       IN callers' = [callers EXCEPT ![c] =
                        IF r.err THEN [pc |-> "fail", order |-> <<>>]
                        ELSE [pc |-> "set", order |-> r.ret]]
    /\ UNCHANGED <<mutex, locking, ports, systems, storeVars>>

\* SetBootOrder with the caller's id alone, the order read before left out
CallerSetBootOrderMutOwnOnly(c) ==
    /\ cpc = "shared"
    /\ callers[c].pc = "set"
    /\ ~VarList.nil
    /\ VarList' = [VarList EXCEPT !.m =
                     MapSet(@, BootOrderName, NewBootOrderVar(<<OwnId(c)>>))]
    /\ callers' = [callers EXCEPT ![c].pc = "unlock"]
    /\ UNCHANGED <<mutex, locking, ports, systems, last>>

\* vs.SetBootOrder(append(order, id))
CallerSetBootOrder(c) ==
    /\ cpc = "shared"
    /\ callers[c].pc = "set"
    /\ ~VarList.nil
    /\ VarList' = [VarList EXCEPT !.m =
                     MapSet(@, BootOrderName,
                            NewBootOrderVar(Append(callers[c].order, OwnId(c))))]
    /\ callers' = [callers EXCEPT ![c].pc = "unlock"]
    /\ UNCHANGED <<mutex, locking, ports, systems, last>>

\* the caller's mu.Unlock()
Release(c) ==
    /\ cpc = "shared"
    /\ callers[c].pc \in {"unlock", "fail"}
    /\ mutex' = IF locking THEN 0 ELSE mutex
    /\ callers' = [callers EXCEPT ![c].pc = IF @ = "unlock" THEN "done" ELSE "failed"]
    /\ UNCHANGED <<locking, ports, systems, storeVars>>

\* the stores the callers share: as constructed, and after WriteVarStore
\* installed a list
SharedStores ==
    {[nil |-> TRUE, m |-> EmptyMap]}
      \cup {[nil |-> FALSE, m |-> vl] : vl \in CallerLists}
      \cup {[nil |-> FALSE, m |-> ListOf({NewBootOrderVar(o)})] : o \in {<<>>, <<5>>, <<5, 1>>}}

InitMutex ==
    /\ VarList \in SharedStores
    /\ last = NoCall
    /\ callers = [c \in Callers |-> [pc |-> "idle", order |-> <<>>]]
    /\ mutex = 0
    /\ locking \in BOOLEAN
    /\ ports = <<>> /\ systems = <<>>
    /\ var = NoVar /\ img = NoImage /\ cpc = "shared"
    /\ ImageIdle /\ LoopIdle /\ GuidIdle /\ PathIdle /\ ScanIdle /\ DiskIdle

NextMutex ==
    \/ \E c \in Callers : Acquire(c)
          /\ UNCHANGED <<guidVars, pathVars, codecVars, imageVars, loopVars, scanVars, diskVars>>
    \/ \E c \in Callers : CallerGetBootOrder(c)
          /\ UNCHANGED <<guidVars, pathVars, codecVars, imageVars, loopVars, scanVars, diskVars>>
    \/ \E c \in Callers : CallerSetBootOrder(c)
          /\ UNCHANGED <<guidVars, pathVars, codecVars, imageVars, loopVars, scanVars, diskVars>>
    \/ \E c \in Callers : Release(c)
          /\ UNCHANGED <<guidVars, pathVars, codecVars, imageVars, loopVars, scanVars, diskVars>>

SpecMutex == InitMutex /\ [][NextMutex]_vars

BothDone == \A c \in Callers : callers[c].pc = "done"

\* the ids of the BootOrder variable of the store
StoredOrder == GetBootOrder(VarList.m).ret

\* C27: when both callers have run their sequence under the mutex, the
\* BootOrder of the store holds the ids of both.
C27_BothIdsUnderMutex ==
    (locking /\ BothDone) =>
        \A c \in Callers : \E i \in 1..Len(StoredOrder) : StoredOrder[i] = OwnId(c)

C27_Witness ==
    /\ locking /\ BothDone
    /\ StoredOrder = <<5, 3, 1>>

\* Without the mutex the second writer can overwrite the first: both callers
\* are done and the id of one is missing.
LostUpdateWithoutMutex ==
    /\ ~locking /\ BothDone
    /\ \E c \in Callers : \A i \in 1..Len(StoredOrder) : StoredOrder[i] # OwnId(c)

---------------------------------------------------------------------------
(* SpecRedfish: the RedfishServer after NewRedfishServer.  ports is the     *)
(* PoE mode of each port override of the UniFi device, systems is the PoE  *)
(* mode s.Systems holds for each port.  Requests are served one at a time. *)

PortIdxs == {1, 2}

PoeModes == {"off", "auto"}

\* the ResetType of a request body; "nil" is a body without the field
ResetTypes == {"On", "ForceOn", "ForceOff", "PowerCycle", "GracefulShutdown", "nil"}

\* calls of the UniFi client that fail during a request
ClientFaults == {"none", "GetDeviceByMAC", "ListActiveClients", "UpdateDevice", "ExecuteCmd"}

RECURSIVE DecDigits(_)
\* the value of a string of decimal digits
DecDigits(s) ==
    IF s = <<>> THEN 0
    ELSE 10 * DecDigits(SubSeq(s, 1, Len(s) - 1)) + (s[Len(s)] - 48)

\* strconv.ParseInt(s, 10, 64): an optional sign, then at least one digit
ParseInt(s) ==
    LET signed == s # <<>> /\ s[1] \in {43, 45}
        digits == IF signed THEN Tail(s) ELSE s
    IN IF digits = <<>> \/ \E i \in 1..Len(digits) : ~IsDigit(digits[i])
       THEN [err |-> TRUE, n |-> 0]
       ELSE [err |-> FALSE,
             n |-> IF signed /\ s[1] = 45 THEN 0 - DecDigits(digits) ELSE DecDigits(digits)]

\* refreshSystems: panic(err) when the device cannot be read; otherwise every
\* port override's PoeMode is stored in s.Systems, and then panic(err) when
\* the active clients cannot be listed.  The active clients hang on ports
\* that have an override, so their loop adds no system and leaves every
\* PoeMode as it is; the function returns no error.
refreshSystems(fault) ==
    IF fault = "GetDeviceByMAC"
    THEN [panic |-> TRUE, Systems |-> systems]
    ELSE [panic |-> fault = "ListActiveClients",
          Systems |-> [p \in DOMAIN systems \cup DOMAIN ports |->
                         IF p \in DOMAIN ports THEN ports[p] ELSE systems[p]]]

\* updateDevicePort: read the device, set PoeMode on the port override with
\* this index, UpdateDevice
updateDevicePort(portIdx, poeMode, fault) ==
    IF fault \in {"GetDeviceByMAC", "UpdateDevice"}
    THEN [err |-> TRUE, ports |-> ports]
    ELSE [err |-> FALSE,
          ports |-> [p \in DOMAIN ports |-> IF p = portIdx THEN poeMode ELSE ports[p]]]

\* what a request did: the status written (200 when the handler returns
\* without writing one), and the PoE mode it passed to updateDevicePort
Response(status, update) == [status |-> status, update |-> update]

\* the handler from the lookup of the system on: sys is a copy of
\* s.Systems[id], so "sys.PoeMode = auto" changes nothing the server keeps
ResetSystemOn(id, resetType, fault) ==
    LET mode == IF systems'[id] = "off" THEN "auto"
                ELSE IF resetType \in {"On", "ForceOn"} THEN "auto"
                ELSE IF resetType = "ForceOff" THEN "off"
                ELSE "none"
        u == updateDevicePort(id, mode, fault)
    IN IF systems'[id] # "off" /\ resetType = "nil"
       THEN [panic |-> TRUE, ports |-> ports, ret |-> Response(0, "none")]
       ELSE IF systems'[id] # "off" /\ resetType = "PowerCycle"
       THEN [panic |-> FALSE, ports |-> ports,
             ret |-> Response(IF fault = "ExecuteCmd" THEN 500 ELSE 204, "none")]
       ELSE IF mode = "none"
       THEN [panic |-> FALSE, ports |-> ports, ret |-> Response(200, "none")]
       ELSE IF u.err
       THEN [panic |-> FALSE, ports |-> ports, ret |-> Response(500, mode)]
       ELSE [panic |-> FALSE, ports |-> u.ports,
             ret |-> Response(IF systems'[id] = "off" THEN 200 ELSE 204, mode)]

\* ResetSystem(w, r, systemId) with a body that decodes to resetType, or
\* does not decode (decodes = FALSE)
ResetSystem(systemId, decodes, resetType, fault) ==
    /\ cpc = "redfish"
    /\ LET id == ParseInt(systemId)
           f == refreshSystems(fault)
       IN IF ~decodes \/ id.err
          THEN /\ last' = Outcome("ResetSystem", <<systemId, decodes, resetType>>,
                                  FALSE, FALSE, Response(500, "none"))
               /\ UNCHANGED <<ports, systems>>
          ELSE /\ systems' = f.Systems
               /\ IF f.panic
                  THEN /\ last' = Outcome("ResetSystem", <<systemId, decodes, resetType>>,
                                          TRUE, FALSE, Response(0, "none"))
                       /\ UNCHANGED ports
                  ELSE IF id.n \notin DOMAIN f.Systems
                  THEN /\ last' = Outcome("ResetSystem", <<systemId, decodes, resetType>>,
                                          FALSE, FALSE, Response(404, "none"))
                       /\ UNCHANGED ports
                  ELSE LET r == ResetSystemOn(id.n, resetType, fault)
                       IN /\ last' = Outcome("ResetSystem", <<systemId, decodes, resetType>>,
                                             r.panic, FALSE, r.ret)
                          /\ ports' = r.ports
    /\ UNCHANGED <<VarList, callers, mutex, locking>>

\* "1", "02", "7", "-1", "x"
SystemIdInputs == {<<49>>, <<48, 50>>, <<55>>, <<45, 49>>, <<120>>}

InitRedfish ==
    /\ ports \in [PortIdxs -> PoeModes]
    /\ systems = ports
    /\ StoreIdle
    /\ callers = <<>> /\ mutex = 0 /\ locking = FALSE
    /\ var = NoVar /\ img = NoImage /\ cpc = "redfish"
    /\ ImageIdle /\ LoopIdle /\ GuidIdle /\ PathIdle /\ ScanIdle /\ DiskIdle

NextRedfish ==
    \E systemId \in SystemIdInputs, decodes \in BOOLEAN,
       resetType \in ResetTypes, fault \in ClientFaults :
        /\ ResetSystem(systemId, decodes, resetType, fault)
        /\ UNCHANGED <<guidVars, pathVars, codecVars, imageVars, loopVars, scanVars, diskVars>>

SpecRedfish == InitRedfish /\ [][NextRedfish]_vars

\* the last request was a ResetSystem of an existing system with ResetType
\* ForceOff that reached the handler's branches
ForceOffServed ==
    /\ last.op = "ResetSystem"
    /\ last.arg[2] /\ last.arg[3] = "ForceOff"
    /\ ~last.panic
    /\ last.ret.status \in {200, 204}

\* C30: the ResetSystem handler never switches a port's PoE mode to "auto"
\* in response to a request whose ResetType is ForceOff, whatever the
\* system's PoE mode.
C30_ForceOffNeverPowersOn ==
    ForceOffServed => last.ret.update # "auto"

\* every served ForceOff request that finds a mode other than "off" does
\* switch the port off
ForceOffOnPoweredPort ==
    (ForceOffServed /\ last.ret.status = 204)
        => (last.ret.update = "off" /\ ports[ParseInt(last.arg[1]).n] = "off")

=============================================================================
